---- MODULE Spec2Model ----
(***************************************************************************)
(* A model of the Trane Home client: the transport (HttpClient), the       *)
(* session manager (AuthManager) and the facade (TraneClient).             *)
(*                                                                         *)
(* Every method of the source is an operator from a program state `st` to  *)
(* a result record that carries the next program state: st.auth is         *)
(* AuthManager.authState, st.hdr the transport's default headers, st.file  *)
(* the state file on disk, st.cache HttpClient.etagCache, st.cl the fields *)
(* of TraneClient, st.env what the outside world answers during the call   *)
(* and st.log what the call sent.  An action is one call of a public       *)
(* method.  Time passes between calls (Tick), never inside one.            *)
(*                                                                         *)
(* Where the interleaving inside a call matters (a refresh that awaits the *)
(* fetch of a device link, a device command that waits on a timer), the    *)
(* call is a task: `task` holds the position of the one in flight, and an  *)
(* action is one run of its code from one await to the next.               *)
(*                                                                         *)
(* JavaScript's undefined is "" for a string field and 0 for a number      *)
(* field: the source reads these fields only by truthiness or `|| 0`, and  *)
(* stores only truthy values in them.                                      *)
(***************************************************************************)
EXTENDS Integers, Sequences, FiniteSets, TLC

VARIABLES authState, headers, file, etagCache, now, uuidCtr, client, task, thermostat,
          reading, httpOptions

vars == <<authState, headers, file, etagCache, now, uuidCtr, client, task, thermostat,
          reading, httpOptions>>

-----------------------------------------------------------------------------
(* Bounds of the model *)

\* options.retryAttempts as configured by the caller
RetryOption == 1
\* how many device UUIDs uuidv4() hands out
MaxUuid == 3
\* how many hours past the start the clock runs (it jumps to the next day from there)
MaxHours == 1
\* the largest options.maxPolls of selectActiveSensors
MaxPolls == 3
\* how many device commands are issued
MaxCommands == 1
\* into how many steps of the clock an hour is divided
WindowSteps == 4
\* how many zones a device has at most
MaxZones == 2
\* the largest options.retryAttempts a client is constructed with
MaxRetry == 2
\* how many twentieths of a degree a temperature lies above or below a full degree
MaxSteps == 30

-----------------------------------------------------------------------------
(* Program constants *)

DefaultRetryAttempts == 3
MAX_LOGIN_ATTEMPTS == 4
UPDATE_DELAY_SECONDS == 7
HOUR_MS == 60 * 60 * 1000
DAY_MS == 24 * 60 * 60 * 1000
OK == 200
NOT_MODIFIED == 304
REDIRECT == 302
UNAUTHORIZED == 401
NOT_FOUND == 404
INTERNAL_SERVER_ERROR == 500

SIGN_IN == "/mobile/accounts/sign_in"
SESSION == "/mobile/session"
HOUSES == "/mobile/houses/1"
DEVICE == "/mobile/xxl_thermostats/1"
Urls == {SIGN_IN, SESSION, HOUSES, DEVICE}

\* this.retryAttempts = options.retryAttempts || 3
HttpClient_retryAttempts(options) ==
  IF options.retryAttempts = 0 THEN DefaultRetryAttempts ELSE options.retryAttempts

\* The options every client but that of SpecRetry is constructed with.
DefaultOptions == [retryAttempts |-> RetryOption]

retryAttempts == HttpClient_retryAttempts(DefaultOptions)

\* the longest script of answers an endpoint gives during one call: one per attempt
MaxScript == retryAttempts + 1

-----------------------------------------------------------------------------
(* The error classes *)

Parent(cls) ==
  CASE cls = "NexiaError"          -> "Error"
    [] cls = "AuthenticationError" -> "NexiaError"
    [] cls = "RateLimitError"      -> "AuthenticationError"
    [] cls = "SessionExpiredError" -> "AuthenticationError"
    [] cls = "ApiError"            -> "NexiaError"
    [] cls = "HttpError"           -> "ApiError"
    [] cls = "NetworkError"        -> "NexiaError"
    [] cls = "TimeoutError"        -> "NetworkError"
    [] cls = "AxiosError"          -> "Error"
    [] OTHER                       -> "none"

RECURSIVE IsA(_, _)
\* error instanceof cls
IsA(cls, super) ==
  IF cls = super THEN TRUE
  ELSE IF Parent(cls) = "none" THEN FALSE
  ELSE IsA(Parent(cls), super)

InstanceOf(error, super) == IsA(error.cls, super)

\* An error value.  status is statusCode (0: the class has none or it is unset), sess says
\* whether the message includes 'session', axios is isAxiosError, code is AxiosError.code,
\* tmo says whether the message includes 'timeout', retryAfter is RateLimitError's, ids
\* the house ids the message lists.
Err(cls, status, sess) ==
  [cls |-> cls, status |-> status, sess |-> sess, axios |-> FALSE, code |-> "",
   tmo |-> FALSE, retryAfter |-> 0, ids |-> <<>>]

NoErr == Err("none", 0, FALSE)

\* What axios rejects with: a response status (0: no response was received) and a code.
AxiosError(status, code, tmo) ==
  [cls |-> "AxiosError", status |-> status, sess |-> FALSE, axios |-> TRUE, code |-> code,
   tmo |-> tmo, retryAfter |-> 0, ids |-> <<>>]

createHttpError(statusCode) == Err("HttpError", statusCode, FALSE)

handleAxiosError(error) ==
  IF error.code = "ECONNABORTED" \/ error.tmo
    THEN Err("TimeoutError", 0, FALSE)
  ELSE IF error.code = "ECONNREFUSED" \/ error.code = "ENOTFOUND"
    THEN Err("NetworkError", 0, FALSE)
  ELSE IF error.status # 0
    THEN IF error.status = UNAUTHORIZED
           THEN Err("AuthenticationError", 0, TRUE)
           ELSE createHttpError(error.status)
  ELSE Err("NetworkError", 0, FALSE)

handleError(error) ==
  IF error.axios THEN handleAxiosError(error)
  ELSE IF InstanceOf(error, "Error")
    \* `Network error: ${error.message}`: the message keeps the words of the cause
    THEN Err("NetworkError", 0, error.sess)
  ELSE Err("ApiError", 0, FALSE)

ErrorHandler_handle_wrapping(error) == Err("NexiaError", 0, error.sess)

\* ErrorHandler.handle
ErrorHandler_handle(error) ==
  IF InstanceOf(error, "NexiaError") THEN error
  ELSE Err("NexiaError", 0, error.sess)

-----------------------------------------------------------------------------
(* Payloads and answers *)

\* houseData.result when the document has none
NoResult == [present |-> FALSE, child |-> <<>>, devices |-> <<>>, automations |-> <<>>]

\* A response body.  success/api_key/mobile_id are the sign-in fields, links and homes the
\* session-discovery fields, result the device tree of a house, id the id of a device
\* document (0: it has none), v the content of any other document.
Data(success, api_key, mobile_id, links, homes, v) ==
  [success |-> success, api_key |-> api_key, mobile_id |-> mobile_id,
   links |-> links, homes |-> homes, v |-> v, result |-> NoResult, id |-> 0]

NoData == Data(FALSE, "", 0, <<>>, <<>>, "")
Doc(v) == Data(TRUE, "", 0, <<>>, <<>>, v)

\* What one call of axiosInstance.request ends with: a response (resolve) or an AxiosError.
Resolve(status, etag, data) ==
  [kind |-> "resolve", status |-> status, etag |-> etag, data |-> data,
   err |-> NoErr]
Reject(error) ==
  [kind |-> "reject", status |-> 0, etag |-> "", data |-> NoData, err |-> error]

RejectStatus(status) == Reject(AxiosError(status, "ERR_BAD_RESPONSE", FALSE))
RejectTimeout == Reject(AxiosError(0, "ECONNABORTED", TRUE))
RejectRefused == Reject(AxiosError(0, "ECONNREFUSED", FALSE))
RejectNoResponse == Reject(AxiosError(0, "ECONNRESET", FALSE))

\* The scripts over a set of answers: what an endpoint answers to the successive requests
\* of one call; the last answer repeats.  Only a failure is followed by another answer.
Scripts(answers) ==
  {s \in UNION {[1..n -> answers] : n \in 1..MaxScript} :
     \A i \in 1..(Len(s) - 1) : s[i].kind = "reject"}

\* The scripts of an endpoint that answers every request alike.
Steady(answers) == {<<a>> : a \in answers}

Pop(script) == IF Len(script) > 1 THEN Tail(script) ELSE script

-----------------------------------------------------------------------------
(* The program state and the log of a call *)

NoEntry == [present |-> FALSE, etag |-> "", data |-> NoData]

NoAnswer == [kind |-> "none", status |-> 0, etag |-> "", data |-> NoData, err |-> NoErr]

\* What a call did: the requests sent to each url, the last answer each url gave, the
\* If-None-Match headers, device UUIDs and API keys sent, and the calls of
\* handleSessionExpired, authenticate and of a successful writeFile.
EmptyLog ==
  [sent |-> [u \in Urls |-> 0], got |-> [u \in Urls |-> NoAnswer], inm |-> {},
   uuids |-> {}, keys |-> {}, expired |-> 0, auths |-> 0, saves |-> 0]

Cur(env) ==
  [auth |-> authState, hdr |-> headers, file |-> file, cache |-> etagCache,
   now |-> now, uuidCtr |-> uuidCtr, cl |-> client, env |-> env, log |-> EmptyLog,
   retryAttempts |-> HttpClient_retryAttempts(httpOptions)]

Commit(st) ==
  /\ authState' = st.auth
  /\ headers' = st.hdr
  /\ file' = st.file
  /\ etagCache' = st.cache
  /\ now' = st.now
  /\ uuidCtr' = st.uuidCtr
  /\ client' = st.cl

\* The outcome of a call: ok with a value, or a thrown error.
Ret(st, val) == [st |-> st, ok |-> TRUE, val |-> val, err |-> NoErr]
Throw(st, error) == [st |-> st, ok |-> FALSE, val |-> NoData, err |-> error]

-----------------------------------------------------------------------------
(* HttpClient *)

\* handleSuccessResponse that fills an empty entry only
handleSuccessResponse_filling(st, url, response) ==
  IF response.etag # "" /\ ~st.cache[url].present
    THEN [st EXCEPT !.cache[url] =
            [present |-> TRUE, etag |-> response.etag, data |-> response.data]]
    ELSE st

handleSuccessResponse(st, url, response) ==
  IF response.etag # ""
    THEN [st EXCEPT !.cache[url] =
            [present |-> TRUE, etag |-> response.etag, data |-> response.data]]
    ELSE st

\* One pass of axiosInstance.request: the request goes out with the default headers and
\* the given If-None-Match, the endpoint's script gives the answer.
Transmit(st, url, ifNoneMatch, body) ==
  [st EXCEPT !.env.script[url] = Pop(@),
             !.log.sent[url] = @ + 1,
             !.log.got[url] = Head(st.env.script[url]),
             !.log.inm = IF ifNoneMatch = "" THEN @ ELSE @ \cup {<<url, ifNoneMatch>>},
             !.log.keys = @ \cup {st.hdr.apiKey},
             !.log.uuids = IF url = SIGN_IN THEN @ \cup {body} ELSE @]

\* the response interceptor's second handler: Promise.reject(this.handleError(error))
interceptRejected(error) == handleError(error)

\* The guard of makeRequest's catch block that throws without a retry.
noRetry(lastError) ==
  \/ InstanceOf(lastError, "AuthenticationError")
  \/ (InstanceOf(lastError, "HttpError") /\ lastError.status # 0 /\ lastError.status < 500)

RECURSIVE requestLoop(_, _, _, _, _, _)
requestLoop(st, method, url, ifNoneMatch, body, attempt) ==
  LET answer == Head(st.env.script[url])
      s1 == Transmit(st, url, ifNoneMatch, body)
  IN IF answer.kind = "resolve"
       THEN Ret(handleSuccessResponse(s1, url, answer),
                [data |-> answer.data, status |-> answer.status, etag |-> answer.etag,
                 fromCache |-> FALSE])
       ELSE LET lastError == handleError(interceptRejected(answer.err))
            IN IF noRetry(lastError) THEN Throw(s1, lastError)
               ELSE IF attempt = st.retryAttempts THEN Throw(s1, lastError)
               ELSE requestLoop(s1, method, url, ifNoneMatch, body, attempt + 1)

makeRequest(st, method, url, ifNoneMatch, body) ==
  requestLoop(st, method, url, ifNoneMatch, body, 0)

HttpClient_get(st, url, ifNoneMatch) == makeRequest(st, "GET", url, ifNoneMatch, 0)
HttpClient_post(st, url, body) == makeRequest(st, "POST", url, "", body)
HttpClient_put(st, url, body) == makeRequest(st, "PUT", url, "", body)
HttpClient_delete(st, url) == makeRequest(st, "DELETE", url, "", 0)

Methods == {"GET", "POST", "PUT", "DELETE"}

\* A call of HttpClient.get, post, put or delete
Request(method, st, url) ==
  CASE method = "GET"  -> HttpClient_get(st, url, "")
    [] method = "POST" -> HttpClient_post(st, url, 0)
    [] method = "PUT"  -> HttpClient_put(st, url, 0)
    [] OTHER           -> HttpClient_delete(st, url)

\* The rest of getWithETag once this.get has settled as r: its catch block.
getWithETag_catch(r, cacheEntry) ==
  IF r.ok THEN r
  ELSE IF InstanceOf(r.err, "HttpError") /\ r.err.status = NOT_MODIFIED
          /\ cacheEntry.present
    THEN Ret(r.st, [data |-> cacheEntry.data, status |-> NOT_MODIFIED, etag |-> "",
                    fromCache |-> TRUE])
  ELSE r

getWithETag(st, url) ==
  getWithETag_catch(
    HttpClient_get(st, url, IF st.cache[url].present THEN st.cache[url].etag ELSE ""),
    st.cache[url])

setAuthHeaders(st, apiKey, mobileId, brand) ==
  [st EXCEPT !.hdr = [apiKey |-> apiKey, mobileId |-> mobileId, brand |-> brand,
                      appVersion |-> "6.0.0"]]

\* clearAuthHeaders that deletes the brand header only
clearAuthHeaders_brand(st) == [st EXCEPT !.hdr = [@ EXCEPT !.brand = ""]]

clearAuthHeaders(st) ==
  [st EXCEPT !.hdr = [@ EXCEPT !.apiKey = "", !.mobileId = "", !.brand = ""]]

clearETagCache(st) == [st EXCEPT !.cache = [u \in Urls |-> NoEntry]]

removeFromETagCache(st, url) == [st EXCEPT !.cache[url] = NoEntry]

-----------------------------------------------------------------------------
(* Time *)

\* Date.now() at the start of the model; later than one hour, as every real clock is.
StartTime == 2 * DAY_MS

\* The instants the clock takes: the start, each full hour after it and the millisecond
\* after that, and a day after the start (where a session of the start expires).
TimePoints ==
  {StartTime, StartTime + DAY_MS}
  \cup {StartTime + h * HOUR_MS + e : h \in 1..MaxHours, e \in 0..1}

\* Math.ceil(a / b) for a >= 0, b > 0
Math_ceil(a, b) == (a + b - 1) \div b

-----------------------------------------------------------------------------
(* AuthManager *)

AuthKeys == {"deviceUuid", "apiKey", "mobileId", "loginAttempts", "lastLoginAttempt",
             "sessionExpiry"}

\* The value that stands for undefined in each field of AuthState.
Undefined(k) ==
  CASE k = "apiKey"        -> ""
    [] k = "mobileId"      -> ""
    [] k = "loginAttempts" -> -1
    [] OTHER               -> 0

\* String(n) of a number 0..99
Digit(d) == CASE d = 0 -> "0" [] d = 1 -> "1" [] d = 2 -> "2" [] d = 3 -> "3"
              [] d = 4 -> "4" [] d = 5 -> "5" [] d = 6 -> "6" [] d = 7 -> "7"
              [] d = 8 -> "8" [] OTHER -> "9"
String(n) == IF n < 10 THEN Digit(n) ELSE Digit(n \div 10) \o Digit(n % 10)

\* uuidv4(): a token that was never handed out before
uuidv4(st) == st.uuidCtr + 1

\* the constructor's authState = { deviceUuid: uuidv4(), loginAttempts: 0 }
NewAuthState(uuid) ==
  [deviceUuid |-> uuid, apiKey |-> "", mobileId |-> "", loginAttempts |-> 0,
   lastLoginAttempt |-> 0, sessionExpiry |-> 0]

\* JSON.stringify(this.authState): the keys whose value is undefined are left out
JSON_stringify(auth) ==
  [k \in {j \in AuthKeys : auth[j] # Undefined(j)} |-> auth[k]]

\* The spread the other way round, { ...state, ...this.authState }
Spread_reversed(auth, state) ==
  [k \in AuthKeys |-> IF auth[k] # Undefined(k) \/ k \notin DOMAIN state
                        THEN auth[k] ELSE state[k]]

\* { ...this.authState, ...state }
Spread(auth, state) ==
  [k \in AuthKeys |-> IF k \in DOMAIN state THEN state[k] ELSE auth[k]]

\* state.<k> of the parsed file
Field(state, k) == IF k \in DOMAIN state THEN state[k] ELSE Undefined(k)

MissingFile == [kind |-> "missing", json |-> [k \in {} |-> 0]]
MalformedFile == [kind |-> "malformed", json |-> [k \in {} |-> 0]]

\* saveState whose failed write costs the session in memory
saveState_losing(st) ==
  IF st.env.diskWrite
    THEN [st EXCEPT !.file = [kind |-> "json", json |-> JSON_stringify(st.auth)],
                    !.log.saves = @ + 1]
    ELSE [st EXCEPT !.auth.apiKey = "", !.auth.mobileId = "", !.auth.sessionExpiry = 0]

saveState(st) ==
  IF st.env.diskWrite
    THEN [st EXCEPT !.file = [kind |-> "json", json |-> JSON_stringify(st.auth)],
                    !.log.saves = @ + 1]
    ELSE st

generateNewDeviceUuid(st) ==
  saveState([st EXCEPT !.auth.deviceUuid = uuidv4(st), !.uuidCtr = uuidv4(st)])

\* isSessionValid that accepts a session at the instant of its expiry (>= for >)
isSessionValid_lenient(st) ==
  /\ st.auth.apiKey # ""
  /\ st.auth.mobileId # ""
  /\ st.auth.sessionExpiry # 0
  /\ st.auth.sessionExpiry >= st.now

isSessionValid(st) ==
  /\ st.auth.apiKey # ""
  /\ st.auth.mobileId # ""
  /\ st.auth.sessionExpiry # 0
  /\ st.auth.sessionExpiry > st.now

\* loadState's try block without the restore of the HTTP headers
loadState_try_headless(st) ==
  IF ~st.env.diskRead \/ st.file.kind # "json" THEN Throw(st, Err("Error", 0, FALSE))
  ELSE IF Field(st.file.json, "deviceUuid") # 0
    THEN Ret([st EXCEPT !.auth = Spread(st.auth, st.file.json)], NoData)
    ELSE Throw(st, Err("Error", 0, FALSE))

\* The try block of loadState: ok FALSE when it throws.
loadState_try(st) ==
  IF ~st.env.diskRead \/ st.file.kind # "json" THEN Throw(st, Err("Error", 0, FALSE))
  ELSE LET state == st.file.json
       IN IF Field(state, "deviceUuid") # 0
            THEN LET s1 == [st EXCEPT !.auth = Spread(st.auth, state)]
                 IN IF isSessionValid(s1) /\ Field(state, "apiKey") # ""
                       /\ Field(state, "mobileId") # ""
                      THEN Ret(setAuthHeaders(s1, state.apiKey, state.mobileId, "trane"),
                               NoData)
                      ELSE Ret(s1, NoData)
            ELSE Throw(st, Err("Error", 0, FALSE))

\* A catch block that answers any throw of the outcome t with generateNewDeviceUuid().
startFresh(t) == IF t.ok THEN t ELSE Ret(generateNewDeviceUuid(t.st), NoData)

loadState(st) == startFresh(loadState_try(st))

AuthManager_initialize(st) == startFresh(loadState(st))

\* checkRateLimit with the limit one attempt later (> for >=)
checkRateLimit_late(st) ==
  LET timeSinceLastAttempt == st.now - st.auth.lastLoginAttempt
      s1 == IF timeSinceLastAttempt > HOUR_MS
              THEN [st EXCEPT !.auth.loginAttempts = 0] ELSE st
      remainingWait == HOUR_MS - timeSinceLastAttempt
  IN IF s1.auth.loginAttempts > MAX_LOGIN_ATTEMPTS
       THEN IF remainingWait > 0
              THEN Throw(s1, [Err("RateLimitError", 0, FALSE)
                                EXCEPT !.retryAfter = Math_ceil(remainingWait, 1000)])
              ELSE Ret([s1 EXCEPT !.auth.loginAttempts = 0], NoData)
       ELSE Ret(s1, NoData)

checkRateLimit(st) ==
  LET lastAttempt == st.auth.lastLoginAttempt
      timeSinceLastAttempt == st.now - lastAttempt
      s1 == IF timeSinceLastAttempt > HOUR_MS
              THEN [st EXCEPT !.auth.loginAttempts = 0] ELSE st
      remainingWait == HOUR_MS - timeSinceLastAttempt
  IN IF s1.auth.loginAttempts >= MAX_LOGIN_ATTEMPTS
       THEN IF remainingWait > 0
              THEN Throw(s1, [Err("RateLimitError", 0, FALSE)
                                EXCEPT !.retryAfter = Math_ceil(remainingWait, 1000)])
              ELSE Ret([s1 EXCEPT !.auth.loginAttempts = 0], NoData)
       ELSE Ret(s1, NoData)

\* The rest of performLogin once httpClient.post has settled as r.
performLogin_response(r) ==
  IF ~r.ok THEN r
  ELSE IF r.val.status = REDIRECT THEN Throw(r.st, Err("AuthenticationError", 0, FALSE))
  ELSE Ret(r.st, r.val.data)

performLogin(st) == performLogin_response(HttpClient_post(st, SIGN_IN, st.auth.deviceUuid))

\* handleLoginFailure without the time stamp
handleLoginFailure_untimed(st) == [st EXCEPT !.auth.loginAttempts = @ + 1]

handleLoginFailure(st) ==
  [st EXCEPT !.auth.loginAttempts = @ + 1, !.auth.lastLoginAttempt = st.now]

\* authenticate_response that keeps the attempt counter on success
authenticate_response_counting(p) ==
  IF ~p.ok THEN p
  ELSE IF p.val.success /\ p.val.api_key # "" /\ p.val.mobile_id # 0
    THEN Ret(saveState(setAuthHeaders(
                 [p.st EXCEPT !.auth.apiKey = p.val.api_key,
                              !.auth.mobileId = String(p.val.mobile_id),
                              !.auth.lastLoginAttempt = p.st.now,
                              !.auth.sessionExpiry = p.st.now + DAY_MS],
                 p.val.api_key, String(p.val.mobile_id), "trane")),
             p.val)
    ELSE Throw(handleLoginFailure(p.st), Err("AuthenticationError", 0, FALSE))

\* The try block of authenticate once performLogin has settled as p; p.val is its response.
authenticate_response(p) ==
  IF ~p.ok THEN p
  ELSE IF p.val.success /\ p.val.api_key # "" /\ p.val.mobile_id # 0
    THEN Ret(saveState(setAuthHeaders(
                 [p.st EXCEPT !.auth.apiKey = p.val.api_key,
                              !.auth.mobileId = String(p.val.mobile_id),
                              !.auth.loginAttempts = 0,
                              !.auth.lastLoginAttempt = p.st.now,
                              !.auth.sessionExpiry = p.st.now + DAY_MS],
                 p.val.api_key, String(p.val.mobile_id), "trane")),
             p.val)
    ELSE Throw(handleLoginFailure(p.st), Err("AuthenticationError", 0, FALSE))

authenticate_try(st) == authenticate_response(performLogin(st))

\* The catch block of authenticate, for the outcome t of its try block.
authenticate_catch(t) ==
  IF t.ok THEN t
  ELSE IF InstanceOf(t.err, "AuthenticationError")
    THEN Throw(handleLoginFailure(t.st), t.err)
  ELSE Throw(handleLoginFailure(t.st),
             Err("AuthenticationError", 0, ErrorHandler_handle(t.err).sess))

\* authenticate that counts a refusal of the rate limiter as a failed attempt
authenticate_checked_counting(c) ==
  IF ~c.ok THEN Throw(handleLoginFailure(c.st), c.err)
  ELSE authenticate_catch(authenticate_try(c.st))

\* authenticate after checkRateLimit has returned or thrown as c.
authenticate_checked(c) ==
  IF ~c.ok THEN c ELSE authenticate_catch(authenticate_try(c.st))

authenticate(st) == authenticate_checked(checkRateLimit([st EXCEPT !.log.auths = @ + 1]))

clearSession(st) ==
  [st EXCEPT !.auth.apiKey = "", !.auth.mobileId = "", !.auth.sessionExpiry = 0]

refreshSession(st) == authenticate(clearAuthHeaders(clearSession(st)))

AuthManager_logout(st) == Ret(saveState(clearAuthHeaders(clearSession(st))), NoData)

reset(st) ==
  LET s1 == [st EXCEPT !.auth = NewAuthState(uuidv4(st)), !.uuidCtr = uuidv4(st)]
  IN Ret(saveState(clearAuthHeaders(s1)), NoData)

\* handleSessionExpired that also forgets the failed attempts
handleSessionExpired_forgetful(st) ==
  clearAuthHeaders([clearSession(st) EXCEPT !.auth.loginAttempts = 0,
                                            !.log.expired = @ + 1])

handleSessionExpired(st) ==
  clearAuthHeaders([clearSession(st) EXCEPT !.log.expired = @ + 1])

\* The homes of a session-discovery result: the location children that have an id, else
\* the legacy list.
RECURSIVE LinkHomes(_)
LinkHomes(links) ==
  IF links = <<>> THEN <<>>
  ELSE IF Head(links).type = "application/vnd.nexia.location+json" /\ Head(links).id # 0
    THEN <<Head(links).id>> \o LinkHomes(Tail(links))
  ELSE LinkHomes(Tail(links))

DiscoveredHomes(result) ==
  IF LinkHomes(result.links) = <<>> THEN result.homes ELSE LinkHomes(result.links)

\* homes.find(h => h.house_id === houseId): 0 when there is none
RECURSIVE Find(_, _)
Find(homes, houseId) ==
  IF homes = <<>> THEN 0
  ELSE IF Head(homes) = houseId THEN houseId
  ELSE Find(Tail(homes), houseId)

\* targetHouse that takes the first home whatever is configured
targetHouse_first(homes, configHouseId) == Head(homes)

\* config.houseId ? homes.find(...) : homes[0], for a list of homes that is not empty
targetHouse(homes, configHouseId) ==
  IF configHouseId # 0 THEN Find(homes, configHouseId) ELSE Head(homes)

\* The try block of getSessionInfo once httpClient.post has settled as r.
getSessionInfo_response(r) ==
  IF ~r.ok THEN r
  ELSE IF ~r.val.data.success THEN Throw(r.st, Err("AuthenticationError", 0, TRUE))
  ELSE IF DiscoveredHomes(r.val.data) = <<>>
    THEN Throw(r.st, Err("AuthenticationError", 0, FALSE))
  ELSE IF targetHouse(DiscoveredHomes(r.val.data), r.st.cl.configHouseId) = 0
    THEN Throw(r.st, [Err("AuthenticationError", 0, FALSE)
                        EXCEPT !.ids = DiscoveredHomes(r.val.data)])
  ELSE Ret(r.st, Doc(targetHouse(DiscoveredHomes(r.val.data), r.st.cl.configHouseId)))

getSessionInfo_try(st) == getSessionInfo_response(HttpClient_post(st, SESSION, 0))

\* The catch block of getSessionInfo, for the outcome t of its try block.
getSessionInfo_catch(t) ==
  IF t.ok \/ InstanceOf(t.err, "AuthenticationError") THEN t
  ELSE Throw(t.st, Err("AuthenticationError", 0, ErrorHandler_handle(t.err).sess))

\* getSessionInfo after its authenticate() has settled as a.
getSessionInfo_authenticated(a) ==
  IF a.ok THEN getSessionInfo_catch(getSessionInfo_try(a.st)) ELSE a

getSessionInfo(st) ==
  IF isSessionValid(st) THEN getSessionInfo_catch(getSessionInfo_try(st))
  ELSE getSessionInfo_authenticated(authenticate(st))

-----------------------------------------------------------------------------
(* TraneClient *)

\* `${API_ENDPOINTS.HOUSES}/${this._houseId}`
HouseUrl(houseId) == "/mobile/houses/" \o String(houseId)

\* thermostat.id and automation.id: String(this.data.id)
DeviceId(payload) == IF payload.id = 0 THEN "undefined" ELSE String(payload.id)

\* The zone objects a TraneThermostat makes of its payload in initializeZones: one per
\* entry of data.zones, each with the sensors of its payload (TraneZone.sensorIds) and
\* those of them whose weight is above 0 (TraneZone.activeSensorIds).
Zones(payload) ==
  IF "zones" \in DOMAIN payload
    THEN {[thermostat |-> DeviceId(payload), sensors |-> z.sensors, active |-> z.active] :
            z \in payload.zones}
    ELSE {}

\* this.thermostats.set(thermostat.id, thermostat): the entry of the id is replaced
setThermostat(cl, payload) ==
  [cl EXCEPT !.thermostats = @ \cup {DeviceId(payload)},
             !.zones = {z \in @ : z.thermostat # DeviceId(payload)} \cup Zones(payload)]

clearDeviceCache(st) ==
  [st EXCEPT !.cl.thermostats = {}, !.cl.automations = {}, !.cl.zones = {}]

isSessionExpiredError(error) ==
  \/ InstanceOf(error, "SessionExpiredError")
  \/ (InstanceOf(error, "ApiError") /\ error.status = REDIRECT)
  \/ (InstanceOf(error, "AuthenticationError") /\ error.sess)

\* The catch block of handleSessionExpiry: 'Failed to refresh expired session'
handleSessionExpiry_catch(t) ==
  IF t.ok THEN t ELSE Throw(clearDeviceCache(t.st), Err("AuthenticationError", 0, TRUE))

\* handleSessionExpiry once getSessionInfo has settled as g
handleSessionExpiry_info(g) ==
  IF g.ok THEN Ret([g.st EXCEPT !.cl.houseId = g.val.v], NoData) ELSE g

\* handleSessionExpiry once authenticate has settled as a
handleSessionExpiry_authenticated(a) ==
  IF a.ok THEN handleSessionExpiry_info(getSessionInfo(a.st)) ELSE a

handleSessionExpiry(st) ==
  handleSessionExpiry_catch(
    handleSessionExpiry_authenticated(authenticate(handleSessionExpired(st))))

RECURSIVE TraneClient_update(_, _)
RECURSIVE TraneClient_request(_, _, _)

\* The catch block of login, for the outcome t of its try block.
login_catch(t) ==
  IF t.ok \/ InstanceOf(t.err, "AuthenticationError") THEN t
  ELSE Throw(t.st, Err("AuthenticationError", 0, ErrorHandler_handle(t.err).sess))

\* login once getSessionInfo has settled as g
login_info(g) ==
  IF g.ok THEN TraneClient_update([g.st EXCEPT !.cl.houseId = g.val.v], TRUE) ELSE g

\* login once authenticate has settled as a
login_authenticated(a) ==
  IF a.ok THEN login_info(getSessionInfo(a.st)) ELSE a

TraneClient_login(st) == login_catch(login_authenticated(authenticate(st)))

\* initialize once login has settled as l
initialize_loggedIn(l) ==
  IF l.ok THEN Ret([l.st EXCEPT !.cl.isInitialized = TRUE], NoData) ELSE l

\* initialize once authManager.initialize has settled as i
initialize_loaded(i) ==
  IF isSessionValid(i.st) THEN Ret([i.st EXCEPT !.cl.isInitialized = TRUE], NoData)
  ELSE initialize_loggedIn(TraneClient_login(i.st))

TraneClient_initialize(st) ==
  IF st.cl.isInitialized THEN Ret(st, NoData)
  ELSE initialize_loaded(AuthManager_initialize(st))

TraneClient_logout(st) ==
  Ret([clearDeviceCache(AuthManager_logout(st).st) EXCEPT !.cl.isInitialized = FALSE],
      NoData)

\* ensureAuthenticated once initialize has settled as i (or was not needed)
ensureAuthenticated_initialized(i) ==
  IF ~i.ok THEN i
  ELSE IF ~isSessionValid(i.st) THEN TraneClient_login(i.st)
  ELSE i

ensureAuthenticated(st) ==
  ensureAuthenticated_initialized(
    IF ~st.cl.isInitialized THEN TraneClient_initialize(st) ELSE Ret(st, NoData))

\* return response.data, for the outcome r of a request of the transport
responseData(r) == IF r.ok THEN Ret(r.st, r.val.data) ELSE r

\* The request of get, post or put once handleSessionExpiry has settled as h: the retry
request_recovered(h, method, url) ==
  IF h.ok THEN responseData(Request(method, h.st, url)) ELSE h

\* The try and the catch block of get, post or put, for the outcome r of the request
request_catch(r, method, url) ==
  IF r.ok THEN Ret(r.st, r.val.data)
  ELSE IF isSessionExpiredError(r.err)
    THEN request_recovered(handleSessionExpiry(r.st), method, url)
  ELSE Throw(r.st, ErrorHandler_handle(r.err))

\* get, post or put once ensureAuthenticated has settled as e
request_ensured(e, method, url) ==
  IF ~e.ok THEN e ELSE request_catch(Request(method, e.st, url), method, url)

\* TraneClient.get, post and put
TraneClient_request(method, st, url) ==
  request_ensured(ensureAuthenticated(st), method, url)

TraneClient_get(st, url) == TraneClient_request("GET", st, url)
TraneClient_post(st, url) == TraneClient_request("POST", st, url)
TraneClient_put(st, url) == TraneClient_request("PUT", st, url)

\* childLink.type === 'thermostat' || childLink.href.includes('xxl_thermostats')
isThermostatLink(childLink) == childLink.type = "thermostat" \/ childLink.href = DEVICE

\* childLink.type === 'automation' || childLink.href.includes('automation')
isAutomationLink(childLink) == childLink.type = "automation"

\* processThermostat once this.get has settled as g; a failure is logged and swallowed
processThermostat_got(g) ==
  IF g.ok THEN [g.st EXCEPT !.cl = setThermostat(@, g.val)] ELSE g.st

processThermostat(st, deviceLink) ==
  processThermostat_got(TraneClient_get(st, deviceLink.href))

processAutomation_got(g) ==
  IF g.ok THEN [g.st EXCEPT !.cl.automations = @ \cup {DeviceId(g.val)}] ELSE g.st

processAutomation(st, deviceLink) ==
  processAutomation_got(TraneClient_get(st, deviceLink.href))

\* The thermostats among the items of a collection, the devices or the automations of the
\* tree: the ids of the payloads that pass the test keep.
RECURSIVE Ids(_, _)
Ids(payloads, thermostatsOnly) ==
  IF payloads = <<>> THEN {}
  ELSE (IF thermostatsOnly /\ ~Head(payloads).features THEN {}
        ELSE {DeviceId(Head(payloads))})
       \cup Ids(Tail(payloads), thermostatsOnly)

\* The loop that makes a TraneThermostat of each payload (of each that passes
\* isThermostatItem, for the items of a collection) and sets it in the collection.
RECURSIVE setThermostats(_, _, _)
setThermostats(cl, payloads, thermostatsOnly) ==
  IF payloads = <<>> THEN cl
  ELSE setThermostats(IF thermostatsOnly /\ ~Head(payloads).features THEN cl
                      ELSE setThermostat(cl, Head(payloads)),
                      Tail(payloads), thermostatsOnly)

\* One pass of the loop over result._links.child
processChild(st, childLink) ==
  IF isThermostatLink(childLink) THEN processThermostat(st, childLink)
  ELSE IF isAutomationLink(childLink) THEN processAutomation(st, childLink)
  ELSE IF childLink.type = "application/vnd.nexia.collection+json"
    THEN [st EXCEPT !.cl = setThermostats(@, childLink.items, TRUE)]
  ELSE st

RECURSIVE processChildren(_, _)
processChildren(st, child) ==
  IF child = <<>> THEN st
  ELSE processChildren(processChild(st, Head(child)), Tail(child))

\* The loops over result.devices and result.automations
processDevices(st, result) ==
  [st EXCEPT !.cl = [setThermostats(@, result.devices, FALSE)
                       EXCEPT !.automations = @ \cup Ids(result.automations, FALSE)]]

processHouseData(st, houseData) ==
  IF ~houseData.success \/ ~houseData.result.present
    THEN Throw(st, Err("ApiError", 0, FALSE))
    ELSE Ret(processDevices(processChildren(clearDeviceCache(st), houseData.result.child),
                            houseData.result),
             NoData)

\* update once processHouseData has settled as p
update_processed(p) ==
  IF p.ok THEN Ret([p.st EXCEPT !.cl.lastUpdate = p.st.now], NoData) ELSE p

\* The try block of update once the fetch has settled as r
update_response(r, forceUpdate) ==
  IF ~r.ok THEN r
  ELSE IF ~r.val.fromCache \/ forceUpdate
    THEN update_processed(processHouseData(r.st, r.val.data))
  ELSE Ret(r.st, NoData)

update_try(st, forceUpdate) ==
  update_response(IF forceUpdate THEN HttpClient_get(st, HouseUrl(st.cl.houseId), "")
                  ELSE getWithETag(st, HouseUrl(st.cl.houseId)),
                  forceUpdate)

\* update once handleSessionExpiry has settled as h: return this.update(options)
update_recovered(h, forceUpdate) ==
  IF h.ok THEN TraneClient_update(h.st, forceUpdate) ELSE h

\* The catch block of update, for the outcome t of its try block
update_catch(t, forceUpdate) ==
  IF t.ok THEN t
  ELSE IF isSessionExpiredError(t.err)
    THEN update_recovered(handleSessionExpiry(t.st), forceUpdate)
  ELSE Throw(t.st, ErrorHandler_handle(t.err))

\* update once ensureAuthenticated has settled as e
update_ensured(e, forceUpdate) ==
  IF ~e.ok THEN e
  ELSE IF e.st.cl.houseId = 0 THEN Throw(e.st, Err("ApiError", 0, FALSE))
  ELSE update_catch(update_try(e.st, forceUpdate), forceUpdate)

TraneClient_update(st, forceUpdate) ==
  update_ensured(ensureAuthenticated(st), forceUpdate)


-----------------------------------------------------------------------------
(* The state after construction *)

NoHeaders == [apiKey |-> "", mobileId |-> "", brand |-> "", appVersion |-> ""]

\* zones: the zone objects of the thermostats in the collection.
NewClient(configHouseId) ==
  [configHouseId |-> configHouseId, houseId |-> 0, thermostats |-> {},
   automations |-> {}, zones |-> {}, lastUpdate |-> 0, isInitialized |-> FALSE]

\* What the getters of the collections return: getThermostatIds(), getAutomationIds().
NoView == [thermostats |-> {}, automations |-> {}]

\* No task in flight.  pc is the await the task stands at ("done": it has settled).
\* Of a refresh: env is what the service answers to the rest of it, child the device
\* links not yet fetched, result the tree, before and after the collections at its start
\* and as its tree describes them.  Of a device command: n counts the commands, kind is
\* the command, zone the object it was called on, requested, maxPolls and pollInterval
\* its options, due the instant its timer is set to, pollCount the local of that name,
\* warned whether it logged 'Sensor selection polling reached maximum attempts', outcome
\* how it settled; wroteAt is the instant its write succeeded, polls the polls it made,
\* reported the first poll whose refreshed device tree showed the requested sensors
\* active, refreshedAt the instant its delayed update() started and refresh what that
\* call sent and how it ended (0: none of these happened).  signIns counts the sign-in
\* requests that reached the service while it was being watched.  Of a setter: device is
\* what the thermostat object holds of its device, rest the setters a composite setter
\* has still to call, refused the error a check of the arguments or of a feature raised,
\* written the write requests sent.
NoTask ==
  [pc |-> "idle", env |-> [script |-> [u \in Urls |-> <<>>], diskRead |-> TRUE,
                           diskWrite |-> TRUE],
   child |-> <<>>, result |-> NoResult, before |-> NoView, after |-> NoView,
   n |-> 0, kind |-> "", zone |-> [thermostat |-> "", sensors |-> {}, active |-> {}],
   requested |-> {}, maxPolls |-> 0, pollInterval |-> 0, due |-> 0, pollCount |-> 0,
   warned |-> FALSE, outcome |-> "", wroteAt |-> 0, polls |-> 0, reported |-> 0,
   refreshedAt |-> 0, refresh |-> [ok |-> FALSE, log |-> EmptyLog], signIns |-> 0,
   device |-> <<>>, rest |-> <<>>, refused |-> "", written |-> 0]

\* No TraneThermostat under construction.  raw is the payload the constructor is given,
\* twin the payload of the other shape that describes the same device (raw itself when
\* there is none), pc the position of the constructor, data and zonesMap the fields of
\* those names.
NoThermostat ==
  [pc |-> "none", raw |-> <<>>, twin |-> <<>>, data |-> <<>>, zonesMap |-> <<>>]

\* No temperature at hand.  x is a temperature in units of 1/Degree, fromUnit and toUnit the
\* units it is rounded in and converted to, n how often that was applied, once the value
\* after the first time, value the last value.
NoReading ==
  [x |-> 0, fromUnit |-> "", toUnit |-> "", n |-> 0, once |-> 0, value |-> 0]

Init ==
  /\ authState = NewAuthState(1)
  /\ headers = NoHeaders
  /\ file = MissingFile
  /\ etagCache = [u \in Urls |-> NoEntry]
  /\ now = StartTime
  /\ uuidCtr = 1
  /\ client = NewClient(0)
  /\ task = NoTask
  /\ httpOptions = DefaultOptions
  /\ thermostat = NoThermostat
  /\ reading = NoReading

\* A call of a method: the operator's result becomes the next state.
Call(r) ==
  /\ r.st.uuidCtr <= MaxUuid
  /\ Commit(r.st)
  /\ UNCHANGED <<task, thermostat, reading, httpOptions>>

-----------------------------------------------------------------------------
(* The session manager on its own: AuthManager over the transport, the disk, the clock *)

ApiKeys == {"k1", "k2"}
MobileId == 42

SignInBody(success, api_key, mobile_id) == Data(success, api_key, mobile_id, <<>>, <<>>, "")

\* What the sign-in endpoint may answer.
SignInAnswers ==
  {Resolve(OK, "", SignInBody(TRUE, k, MobileId)) : k \in ApiKeys}
  \cup {Resolve(OK, "", SignInBody(FALSE, "k1", MobileId)),
        Resolve(OK, "", SignInBody(TRUE, "", MobileId)),
        Resolve(OK, "", SignInBody(TRUE, "k1", 0)),
        Resolve(REDIRECT, "", NoData),
        RejectStatus(UNAUTHORIZED), RejectRefused}

Location(id) == [type |-> "application/vnd.nexia.location+json", id |-> id]

SessionBody(success, links, homes) == Data(success, "", 0, links, homes, "")

\* What the session-discovery endpoint may answer.
SessionAnswers ==
  {Resolve(OK, "", SessionBody(TRUE, <<Location(1), Location(2)>>, <<>>)),
   Resolve(OK, "", SessionBody(TRUE, <<>>, <<2>>)),
   Resolve(OK, "", SessionBody(TRUE, <<Location(0), Location(2)>>, <<1>>)),
   Resolve(OK, "", SessionBody(TRUE, <<Location(0)>>, <<3, 1>>)),
   Resolve(OK, "", SessionBody(TRUE, <<>>, <<>>)),
   Resolve(OK, "", SessionBody(FALSE, <<>>, <<>>)),
   RejectStatus(UNAUTHORIZED)}

\* The inputs of a call: what the sign-in and the discovery endpoint answer during it.
SignInScripts == Scripts(SignInAnswers)
SessionScripts == Steady(SessionAnswers)

AuthEnv(signIn, session, diskRead, diskWrite) ==
  [script |-> [u \in Urls |-> IF u = SIGN_IN THEN signIn
                              ELSE IF u = SESSION THEN session
                              ELSE <<Resolve(OK, "", NoData)>>],
   diskRead |-> diskRead, diskWrite |-> diskWrite]

Tick ==
  /\ \E t \in TimePoints : t > now /\ now' = t
  /\ UNCHANGED <<authState, headers, file, etagCache, uuidCtr, client, task, thermostat,
                 reading, httpOptions>>

\* The state file is removed or damaged from outside.
DamageFile ==
  /\ \E f \in {MissingFile, MalformedFile,
               [kind |-> "json", json |-> [k \in {"loginAttempts"} |-> 0]]} :
        file # f /\ file' = f
  /\ UNCHANGED <<authState, headers, etagCache, now, uuidCtr, client, task, thermostat,
                 reading, httpOptions>>

\* The process ends and a new one constructs its objects.
Restart ==
  /\ uuidCtr < MaxUuid
  /\ authState' = NewAuthState(uuidCtr + 1)
  /\ uuidCtr' = uuidCtr + 1
  /\ headers' = NoHeaders
  /\ etagCache' = [u \in Urls |-> NoEntry]
  /\ client' = NewClient(client.configHouseId)
  /\ UNCHANGED <<file, now, task, thermostat, reading, httpOptions>>

\* The calls of AuthManager's public methods; disk is the set of the disk's possible
\* answers to a read or a write (TRUE: it works).
Initialize(disk) ==
  \E dr \in disk, dw \in disk :
    LET env == AuthEnv(<<RejectRefused>>, <<RejectRefused>>, dr, dw)
    IN /\ Call(AuthManager_initialize(Cur(env)))

Authenticate(disk) ==
  \E s \in SignInScripts, dw \in disk :
    LET env == AuthEnv(s, <<RejectRefused>>, TRUE, dw)
    IN /\ Call(authenticate(Cur(env)))

RefreshSession(disk) ==
  \E s \in SignInScripts, dw \in disk :
    LET env == AuthEnv(s, <<RejectRefused>>, TRUE, dw)
    IN /\ Call(refreshSession(Cur(env)))

Logout(disk) ==
  \E dw \in disk :
    LET env == AuthEnv(<<RejectRefused>>, <<RejectRefused>>, TRUE, dw)
    IN /\ Call(AuthManager_logout(Cur(env)))

Reset(disk) ==
  \E dw \in disk :
    LET env == AuthEnv(<<RejectRefused>>, <<RejectRefused>>, TRUE, dw)
    IN /\ Call(reset(Cur(env)))

HandleSessionExpired ==
  LET env == AuthEnv(<<RejectRefused>>, <<RejectRefused>>, TRUE, TRUE)
  IN /\ Call(Ret(handleSessionExpired(Cur(env)), NoData))

GetSessionInfo(disk) ==
  \E s \in Steady(SignInAnswers), d \in SessionScripts, dw \in disk :
    LET env == AuthEnv(s, d, TRUE, dw)
    IN /\ Call(getSessionInfo(Cur(env)))

Reliable == {TRUE}
Unreliable == {TRUE, FALSE}

\* The session manager over time, on a disk that works.
Next ==
  \/ Tick
  \/ Initialize(Reliable)
  \/ Authenticate(Reliable)
  \/ RefreshSession(Reliable)
  \/ Logout(Reliable)
  \/ HandleSessionExpired
  \/ GetSessionInfo(Reliable)

Spec == Init /\ [][Next]_vars

\* The program state now, for a call during which the sign-in endpoint follows signIn, the
\* discovery endpoint session and the disk takes writes as diskWrite says.
Here(signIn, session, diskWrite) == Cur(AuthEnv(signIn, session, TRUE, diskWrite))
Quiet == Here(<<RejectRefused>>, <<RejectRefused>>, TRUE)

\* The milliseconds since the last login attempt (lastLoginAttempt || 0)
Elapsed == now - authState.lastLoginAttempt

\* The call r was refused by the rate limiter before anything was sent.
Refused(r) ==
  /\ ~r.ok
  /\ r.err.cls = "RateLimitError"
  /\ r.err.retryAfter > 0
  /\ r.st.log.sent[SIGN_IN] = 0

\* The call r passed the rate limiter with the counter at 0 and asked the service.
Admitted(st, r) ==
  /\ checkRateLimit(st).ok
  /\ checkRateLimit(st).st.auth.loginAttempts = 0
  /\ r.st.log.sent[SIGN_IN] >= 1

\* C1 as stated: with loginAttempts at MAX_LOGIN_ATTEMPTS or above and no more than one
\* hour since lastLoginAttempt, authenticate() raises RateLimitError with a positive wait
\* and sends nothing; with more than one hour since, the counter is reset to 0 and the
\* sign-in request is sent.
C1_AsStated ==
  \A s \in SignInScripts :
    LET r == authenticate(Here(s, <<RejectRefused>>, TRUE))
    IN /\ (authState.loginAttempts >= MAX_LOGIN_ATTEMPTS /\ Elapsed <= HOUR_MS)
            => Refused(r)
       /\ Elapsed > HOUR_MS => Admitted(Here(s, <<RejectRefused>>, TRUE), r)

\* C1 (amended): with loginAttempts at MAX_LOGIN_ATTEMPTS or above and LESS than one hour
\* since lastLoginAttempt, authenticate() raises RateLimitError with a strictly positive
\* remaining wait and sends no sign-in request; with more than one hour since the last
\* attempt, and also with exactly one hour since it when the counter is at the maximum,
\* the counter is reset to 0 and authenticate() sends the sign-in request.
C1_RateLimiter ==
  \A s \in SignInScripts :
    LET r == authenticate(Here(s, <<RejectRefused>>, TRUE))
    IN /\ (authState.loginAttempts >= MAX_LOGIN_ATTEMPTS /\ Elapsed < HOUR_MS)
            => Refused(r)
       /\ (\/ Elapsed > HOUR_MS
           \/ (Elapsed = HOUR_MS /\ authState.loginAttempts >= MAX_LOGIN_ATTEMPTS))
            => Admitted(Here(s, <<RejectRefused>>, TRUE), r)

\* C1's case: failed calls of authenticate() have brought the counter to the maximum, the
\* last of them less than an hour ago but not now, and the next call is refused.
C1_Witness ==
  /\ authState.loginAttempts >= MAX_LOGIN_ATTEMPTS
  /\ Elapsed > 0
  /\ Elapsed < HOUR_MS
  /\ \A s \in SignInScripts : Refused(authenticate(Here(s, <<RejectRefused>>, TRUE)))

\* The session manager at one instant, over restarts, on a disk that may fail or lose the
\* state file.
NextDisk ==
  \/ DamageFile
  \/ Restart
  \/ Initialize(Unreliable)
  \/ Authenticate(Unreliable)
  \/ RefreshSession(Unreliable)
  \/ Logout(Unreliable)
  \/ Reset(Unreliable)
  \/ HandleSessionExpired
  \/ GetSessionInfo(Unreliable)

SpecDisk == Init /\ [][NextDisk]_vars

\* The last answer the sign-in endpoint gave during the call that ended in st.
SignInAnswer(st) == st.log.got[SIGN_IN]

\* The sign-in response carries both an API key and a mobile id.
CarriesTokens(answer) ==
  /\ answer.kind = "resolve"
  /\ answer.status # REDIRECT
  /\ answer.data.api_key # ""
  /\ answer.data.mobile_id # 0

\* The state file holds the session state of st.
Persisted(st) == st.file = [kind |-> "json", json |-> JSON_stringify(st.auth)]

\* The call r of authenticate(), made at the time t, established a session from answer.
Established(r, answer, t) ==
  /\ r.ok
  /\ isSessionValid(r.st)
  /\ r.st.auth.loginAttempts = 0
  /\ r.st.auth.sessionExpiry = t + DAY_MS
  /\ r.st.hdr.apiKey = answer.data.api_key
  /\ r.st.hdr.mobileId = String(answer.data.mobile_id)

\* C7 as stated: when the sign-in response carries both an API key and a mobile id,
\* authenticate() leaves the session valid, loginAttempts 0, sessionExpiry 24 hours after
\* the login time, the key and the id in the transport's default headers, and the state
\* in the state file.
C7_AsStated ==
  \A s \in SignInScripts, dw \in BOOLEAN :
    LET r == authenticate(Here(s, <<RejectRefused>>, dw))
    IN CarriesTokens(SignInAnswer(r.st))
         => Established(r, SignInAnswer(r.st), now) /\ Persisted(r.st)

\* C7 (amended): when the sign-in response REPORTS SUCCESS and carries both an API key and
\* a mobile id, authenticate() leaves the session valid, loginAttempts 0, sessionExpiry 24
\* hours after the login time and the key and the id in the transport's default headers;
\* the state file holds the new state WHEN THE DISK TAKES THE WRITE.
C7_SuccessfulAuthentication ==
  \A s \in SignInScripts, dw \in BOOLEAN :
    LET r == authenticate(Here(s, <<RejectRefused>>, dw))
    IN (CarriesTokens(SignInAnswer(r.st)) /\ SignInAnswer(r.st).data.success)
         => /\ Established(r, SignInAnswer(r.st), now)
            /\ dw => Persisted(r.st)

\* C7's case: authenticate() has returned and the session it made is valid, in the
\* headers and in the state file.
C7_Witness ==
  /\ isSessionValid(Quiet)
  /\ authState.loginAttempts = 0
  /\ authState.lastLoginAttempt = now
  /\ headers.apiKey = authState.apiKey
  /\ authState.sessionExpiry = now + DAY_MS
  /\ Persisted(Quiet)

\* The sign-in exchange of the call that ended in st took place and did not succeed.
SignInFailed(st) ==
  /\ st.log.sent[SIGN_IN] >= 1
  /\ ~(CarriesTokens(SignInAnswer(st)) /\ SignInAnswer(st).data.success)

Saved(r) == r.st.auth # authState => Persisted(r.st)

\* C9: after every operation that changes the in-memory session state (a successful or a
\* failed login, logout, handleSessionExpired, refreshSession, reset), the state file
\* holds the new state whenever the disk is available.
C9_Persistence ==
  /\ \A s \in SignInScripts :
       /\ Saved(authenticate(Here(s, <<RejectRefused>>, TRUE)))
       /\ Saved(refreshSession(Here(s, <<RejectRefused>>, TRUE)))
  /\ Saved(AuthManager_logout(Quiet))
  /\ Saved(Ret(handleSessionExpired(Quiet), NoData))
  /\ Saved(reset(Quiet))

\* The state file can be read and holds a device UUID.
HoldsUuid(dr) == dr /\ file.kind = "json" /\ Field(file.json, "deviceUuid") # 0

\* The call r kept the device UUID and sent no other.
KeepsUuid(r) ==
  /\ r.st.auth.deviceUuid = authState.deviceUuid
  /\ r.st.uuidCtr = uuidCtr
  /\ r.st.log.uuids \subseteq {authState.deviceUuid}

\* The call r made a new device UUID.
Regenerates(r) == r.st.uuidCtr # uuidCtr

-----------------------------------------------------------------------------
(* The transport on its own: HttpClient over a server *)

\* What an endpoint may answer: a 200 with or without an ETag header, or a failure.
HttpAnswers ==
  {Resolve(OK, "e1", Doc("d1")), Resolve(OK, "e2", Doc("d2")), Resolve(OK, "", Doc("d3")),
   RejectStatus(NOT_MODIFIED), RejectStatus(UNAUTHORIZED), RejectStatus(NOT_FOUND),
   RejectStatus(INTERNAL_SERVER_ERROR), RejectTimeout, RejectRefused}

HttpScripts == Scripts(HttpAnswers)

\* The inputs of a call of the transport: what the endpoint at url answers during it.
HttpEnv(url, script) ==
  [script |-> [u \in Urls |-> IF u = url THEN script ELSE <<RejectRefused>>],
   diskRead |-> TRUE, diskWrite |-> TRUE]

HttpGet ==
  \E url \in Urls, s \in HttpScripts :
    LET env == HttpEnv(url, s)
    IN /\ Call(HttpClient_get(Cur(env), url, ""))

HttpPost ==
  \E url \in Urls, s \in Steady(HttpAnswers) :
    LET env == HttpEnv(url, s)
    IN /\ Call(HttpClient_post(Cur(env), url, 0))

HttpPut ==
  \E url \in Urls, s \in Steady(HttpAnswers) :
    LET env == HttpEnv(url, s)
    IN /\ Call(HttpClient_put(Cur(env), url, 0))

HttpDelete ==
  \E url \in Urls, s \in Steady(HttpAnswers) :
    LET env == HttpEnv(url, s)
    IN /\ Call(HttpClient_delete(Cur(env), url))

GetWithETag ==
  \E url \in Urls, s \in HttpScripts :
    LET env == HttpEnv(url, s)
    IN /\ Call(getWithETag(Cur(env), url))

SetAuthHeaders ==
  \E k \in ApiKeys :
    LET env == HttpEnv(SIGN_IN, <<RejectRefused>>)
    IN /\ Call(Ret(setAuthHeaders(Cur(env), k, String(MobileId), "trane"), NoData))

ClearAuthHeaders ==
  LET env == HttpEnv(SIGN_IN, <<RejectRefused>>)
  IN /\ Call(Ret(clearAuthHeaders(Cur(env)), NoData))

ClearETagCache ==
  LET env == HttpEnv(SIGN_IN, <<RejectRefused>>)
  IN /\ Call(Ret(clearETagCache(Cur(env)), NoData))

RemoveFromETagCache ==
  \E url \in Urls :
    LET env == HttpEnv(url, <<RejectRefused>>)
    IN /\ Call(Ret(removeFromETagCache(Cur(env), url), NoData))

NextHttp ==
  \/ HttpGet
  \/ HttpPost
  \/ HttpPut
  \/ HttpDelete
  \/ GetWithETag
  \/ SetAuthHeaders
  \/ ClearAuthHeaders
  \/ ClearETagCache
  \/ RemoveFromETagCache

SpecHttp == Init /\ [][NextHttp]_vars

\* The program state now, for a call during which the endpoint at url follows script.
HttpHere(url, script) == Cur(HttpEnv(url, script))

\* The answer is a failure that carries the response status 401 or another 4xx.
ClientFailure(answer) ==
  /\ answer.kind = "reject"
  /\ answer.err.status >= 400
  /\ answer.err.status < 500

\* The answer is a failure without a response, or with a status of 500 or above.
Retryable(answer) ==
  /\ answer.kind = "reject"
  /\ (answer.err.status = 0 \/ answer.err.status >= INTERNAL_SERVER_ERROR)

\* C2: for every request issued through HttpClient (get, post, put, delete), a failure
\* whose response status is 401 or any other 4xx is surfaced to the caller after the first
\* attempt with no retry; only failures without a response (network, timeout) or with a
\* status of 500 or above are retried.
C2_RetryPolicy ==
  \A method \in Methods, url \in Urls, s \in HttpScripts :
    LET r == Request(method, HttpHere(url, s), url)
    IN /\ ClientFailure(s[1]) => (~r.ok /\ r.st.log.sent[url] = 1)
       /\ r.st.log.sent[url] > 1 => Retryable(s[1])

\* C5: after a getWithETag(url) that received a 200 response carrying an ETag (the entry
\* of url is in the cache), a getWithETag(url) to which the server answers 304 sends that
\* ETag as If-None-Match and returns the cached payload with fromCache = true, without
\* raising an error.
C5_CacheHit ==
  \A url \in Urls :
    LET r == getWithETag(HttpHere(url, <<RejectStatus(NOT_MODIFIED)>>), url)
    IN etagCache[url].present
         => /\ <<url, etagCache[url].etag>> \in r.st.log.inm
            /\ r.ok
            /\ r.val.fromCache
            /\ r.val.data = etagCache[url].data

\* The cache entry that holds a response.
EntryOf(answer) == [present |-> TRUE, etag |-> answer.etag, data |-> answer.data]

\* The call r, whose last answer was a 200 response, left that response in the entry of url.
Overwritten(r, url) == r.st.cache[url] = EntryOf(r.st.log.got[url])

\* C6 as stated: every 200 response to a URL overwrites the cache entry of that URL, so
\* after any 200 response the cached payload and ETag of the URL are those of that response.
C6_AsStated ==
  \A method \in Methods, url \in Urls, s \in HttpScripts :
    LET r == Request(method, HttpHere(url, s), url)
    IN r.ok => Overwritten(r, url)

\* C6 (amended): every 200 response to a URL THAT CARRIES AN ETAG overwrites the cache
\* entry of that URL with the ETag and the payload of that response, whatever the method;
\* A 200 RESPONSE WITHOUT AN ETAG LEAVES THE ENTRY AS IT WAS; no response to a URL touches
\* the entry of another URL.
C6_CacheReplacement ==
  \A method \in Methods, url \in Urls, s \in HttpScripts :
    LET r == Request(method, HttpHere(url, s), url)
    IN /\ (r.ok /\ r.val.etag # "") => Overwritten(r, url)
       /\ (r.ok /\ r.val.etag = "") => r.st.cache[url] = etagCache[url]
       /\ \A other \in Urls \ {url} : r.st.cache[other] = etagCache[other]

\* C6's case: the cache holds the response "e1" of a URL, and a 200 response "e2" to that
\* URL replaces it, ETag and payload.
C6_Witness ==
  \E url \in Urls :
    /\ etagCache[url] = EntryOf(Resolve(OK, "e1", Doc("d1")))
    /\ getWithETag(HttpHere(url, <<Resolve(OK, "e2", Doc("d2"))>>), url).st.cache[url]
         = EntryOf(Resolve(OK, "e2", Doc("d2")))

-----------------------------------------------------------------------------
(* The facade: TraneClient over the session manager, the transport and the service *)

\* A device payload: its id and whether its features are those of a thermostat.
Payload(id, features) == [id |-> id, features |-> features]

ThermostatLink == [type |-> "thermostat", href |-> DEVICE, items |-> <<>>]
Collection(items) ==
  [type |-> "application/vnd.nexia.collection+json", href |-> "", items |-> items]

Result(child, devices, automations) ==
  [present |-> TRUE, child |-> child, devices |-> devices, automations |-> automations]

HouseBody(success, result) == [NoData EXCEPT !.success = success, !.result = result]
DeviceBody(id) == [Doc("") EXCEPT !.id = id]

\* What the house endpoint may answer: a tree with embedded devices, a tree with a device
\* link and a collection, a document without a tree, or a failure.
HouseAnswers ==
  {Resolve(OK, "e1", HouseBody(TRUE, Result(<<>>, <<Payload(7, TRUE)>>,
                                            <<Payload(9, FALSE)>>))),
   Resolve(OK, "", HouseBody(TRUE,
             Result(<<ThermostatLink, Collection(<<Payload(5, TRUE), Payload(6, FALSE)>>)>>,
                    <<>>, <<>>))),
   Resolve(OK, "e2", HouseBody(TRUE, NoResult)),
   RejectStatus(UNAUTHORIZED), RejectStatus(NOT_MODIFIED),
   RejectStatus(INTERNAL_SERVER_ERROR)}

DeviceAnswers == {Resolve(OK, "", DeviceBody(8)), RejectStatus(UNAUTHORIZED)}

HouseAnswer == Resolve(OK, "e1", HouseBody(TRUE, Result(<<>>, <<Payload(7, TRUE)>>,
                                                        <<Payload(9, FALSE)>>)))
DeviceAnswer == Resolve(OK, "", DeviceBody(8))
SignedIn == Resolve(OK, "", SignInBody(TRUE, "k1", MobileId))
Discovered == Resolve(OK, "", SessionBody(TRUE, <<Location(1), Location(2)>>, <<>>))

\* The inputs of a call of the facade: what each endpoint answers during it.
ClientEnv(signIn, session, houses, device) ==
  [script |-> [u \in Urls |-> IF u = SIGN_IN THEN signIn
                              ELSE IF u = SESSION THEN session
                              ELSE IF u = HOUSES THEN houses
                              ELSE device],
   diskRead |-> TRUE, diskWrite |-> TRUE]

\* The service as it answers during one call: every endpoint answers each request alike.
ClientEnvs ==
  {ClientEnv(<<a>>, <<b>>, <<h>>, <<d>>) :
     a \in {SignedIn, RejectStatus(UNAUTHORIZED)},
     b \in {Discovered, RejectStatus(UNAUTHORIZED)},
     h \in HouseAnswers, d \in DeviceAnswers}

ClientInitialize ==
  \E env \in ClientEnvs : /\ Call(TraneClient_initialize(Cur(env)))

ClientLogin ==
  \E env \in ClientEnvs : /\ Call(TraneClient_login(Cur(env)))

ClientLogout ==
  LET env == ClientEnv(<<RejectRefused>>, <<RejectRefused>>, <<RejectRefused>>,
                       <<RejectRefused>>)
  IN /\ Call(TraneClient_logout(Cur(env)))

Update ==
  \E env \in ClientEnvs, forceUpdate \in BOOLEAN :
    /\ Call(TraneClient_update(Cur(env), forceUpdate))

ClientGet ==
  \E env \in ClientEnvs : /\ Call(TraneClient_get(Cur(env), DEVICE))

ClientPost ==
  \E env \in ClientEnvs : /\ Call(TraneClient_post(Cur(env), DEVICE))

ClientPut ==
  \E env \in ClientEnvs : /\ Call(TraneClient_put(Cur(env), DEVICE))

\* The facade at one instant.
NextClient ==
  \/ ClientInitialize
  \/ ClientLogin
  \/ ClientLogout
  \/ Update
  \/ ClientGet
  \/ ClientPost
  \/ ClientPut

SpecClient == Init /\ [][NextClient]_vars

\* The client is initialized on a valid session and knows its house.
Ready ==
  /\ client.isInitialized
  /\ client.houseId # 0
  /\ isSessionValid(Quiet)

\* The service whose endpoint at url answers 401 to every request while the sign-in and
\* the discovery endpoint answer well.
Expiring(url) ==
  ClientEnv(<<SignedIn>>, <<Discovered>>,
            IF url = HOUSES THEN <<RejectStatus(UNAUTHORIZED)>> ELSE <<HouseAnswer>>,
            IF url = DEVICE THEN <<RejectStatus(UNAUTHORIZED)>> ELSE <<DeviceAnswer>>)

\* The call r went through the recovery once: one call of handleSessionExpired, one
\* re-authentication with one sign-in exchange, and one more request to url, the outcome
\* of which is the outcome of the call.
RecoveredOnce(r, url) ==
  /\ r.st.log.expired = 1
  /\ r.st.log.auths = 1
  /\ r.st.log.sent[SIGN_IN] = 1
  /\ r.st.log.sent[url] = 2
  /\ ~r.ok

\* C3: one call of update() whose device-tree fetch fails with a session-expiry error (the
\* house endpoint answers 401) calls handleSessionExpired, performs exactly one
\* re-authentication and re-issues the fetch exactly once; the failure of the retried fetch
\* propagates to the caller with no further re-authentication.
C3_UpdateRecovery ==
  \A forceUpdate \in BOOLEAN :
    Ready => RecoveredOnce(TraneClient_update(Cur(Expiring(HOUSES)), forceUpdate), HOUSES)

\* C4: for get, post and put on an authenticated session, when the server answers the
\* request with 401 the client performs exactly one re-authentication (one sign-in
\* exchange) and exactly one retried request, then raises the retry's failure.
C4_RequestRecovery ==
  \A method \in {"GET", "POST", "PUT"} :
    Ready => RecoveredOnce(TraneClient_request(method, Cur(Expiring(DEVICE)), DEVICE),
                           DEVICE)

-----------------------------------------------------------------------------
(* Claims about the session manager's restore, expiry and validity check *)

\* The state file can be read and holds a device UUID, an API key, a mobile id and a
\* sessionExpiry later than now.
HoldsSession(dr) ==
  /\ HoldsUuid(dr)
  /\ Field(file.json, "apiKey") # ""
  /\ Field(file.json, "mobileId") # ""
  /\ Field(file.json, "sessionExpiry") > now

\* The call r sent no request.
NoNetwork(r) == \A u \in Urls : r.st.log.sent[u] = 0

\* The call r of initialize() restored the session of the state file.
Restored(r) ==
  /\ r.ok
  /\ isSessionValid(r.st)
  /\ r.st.auth.deviceUuid = file.json.deviceUuid
  /\ r.st.hdr.apiKey = file.json.apiKey
  /\ r.st.hdr.mobileId = file.json.mobileId
  /\ NoNetwork(r)

\* The call r of initialize() made a fresh device UUID and left no valid session.
StartedFresh(r) ==
  /\ r.ok
  /\ Regenerates(r)
  /\ r.st.auth.deviceUuid = r.st.uuidCtr
  /\ ~isSessionValid(r.st)

\* C11 as stated: initialize() with a state file that holds a device id, API key, mobile
\* id and an unexpired sessionExpiry leaves isSessionValid() true and the credentials in
\* the transport headers, without a network call; with a missing file, malformed JSON or
\* a missing device id it generates a fresh deviceUuid and isSessionValid() is false.
C11_AsStated ==
  \A dw \in BOOLEAN :
    LET r == AuthManager_initialize(
               Cur(AuthEnv(<<RejectRefused>>, <<RejectRefused>>, TRUE, dw)))
    IN /\ HoldsSession(TRUE) => Restored(r)
       /\ ~HoldsUuid(TRUE) => StartedFresh(r)

\* C11 (amended): initialize() with a readable state file that holds a device id, API key,
\* mobile id and an unexpired sessionExpiry leaves isSessionValid() true and the file's
\* credentials in the transport headers, without a network call; with a missing,
\* unreadable or malformed file or a missing device id it generates a fresh deviceUuid,
\* sends nothing and keeps the rest of the in-memory state, so that isSessionValid() is
\* false WHEN THE MANAGER HELD NO VALID SESSION BEFORE THE CALL (as after construction).
C11_SessionRestore ==
  \A dr \in BOOLEAN, dw \in BOOLEAN :
    LET r == AuthManager_initialize(
               Cur(AuthEnv(<<RejectRefused>>, <<RejectRefused>>, dr, dw)))
    IN /\ HoldsSession(dr) => Restored(r)
       /\ ~HoldsUuid(dr)
            => /\ r.ok /\ Regenerates(r) /\ NoNetwork(r)
               /\ r.st.auth = [authState EXCEPT !.deviceUuid = r.st.uuidCtr]
               /\ r.st.hdr = headers
               /\ ~isSessionValid(Quiet) => StartedFresh(r)

\* C11's case: a new process has restored the session of the state file: the session is
\* valid and the headers carry the file's credentials, under the file's device UUID and
\* not the one the manager was constructed with.
C11_Witness ==
  /\ HoldsSession(TRUE)
  /\ authState = Spread(NewAuthState(uuidCtr), file.json)
  /\ authState.deviceUuid < uuidCtr
  /\ isSessionValid(Quiet)
  /\ headers.apiKey = file.json.apiKey
  /\ headers.mobileId = file.json.mobileId

\* C12: handleSessionExpired() clears apiKey, mobileId and sessionExpiry in memory and
\* removes the auth headers from the transport; it leaves deviceUuid, loginAttempts and
\* lastLoginAttempt (and the state file) as they were; afterwards isSessionValid() is
\* false.
C12_SessionExpired ==
  LET st == handleSessionExpired(Quiet)
  IN /\ st.auth.apiKey = Undefined("apiKey")
     /\ st.auth.mobileId = Undefined("mobileId")
     /\ st.auth.sessionExpiry = Undefined("sessionExpiry")
     /\ st.hdr.apiKey = "" /\ st.hdr.mobileId = "" /\ st.hdr.brand = ""
     /\ st.auth.deviceUuid = authState.deviceUuid
     /\ st.auth.loginAttempts = authState.loginAttempts
     /\ st.auth.lastLoginAttempt = authState.lastLoginAttempt
     /\ st.uuidCtr = uuidCtr
     /\ st.file = file
     /\ ~isSessionValid(st)

\* C12's case: handleSessionExpired() has acted on a manager that had logged in after the
\* start: the session is gone from memory and from the headers while the state file
\* still holds it, the attempt counter is still 0 and the login time is still on record.
C12_Witness ==
  /\ file.kind = "json"
  /\ Field(file.json, "apiKey") # ""
  /\ authState.apiKey = ""
  /\ authState.sessionExpiry = 0
  /\ headers.apiKey = ""
  /\ headers.appVersion # ""
  /\ authState.loginAttempts = 0
  /\ authState.lastLoginAttempt > StartTime

\* C13: isSessionValid() is true if and only if apiKey, mobileId and sessionExpiry are all
\* present and sessionExpiry is later than the current time; its value depends on nothing
\* but these fields and the clock (not on the disk or on what the server would answer).
C13_SessionValidity ==
  /\ isSessionValid(Quiet)
       <=> /\ authState.apiKey # Undefined("apiKey")
           /\ authState.mobileId # Undefined("mobileId")
           /\ authState.sessionExpiry # Undefined("sessionExpiry")
           /\ authState.sessionExpiry > now
  /\ \A s \in Steady(SignInAnswers), d \in SessionScripts, dr \in BOOLEAN, dw \in BOOLEAN :
       isSessionValid(Cur(AuthEnv(s, d, dr, dw))) <=> isSessionValid(Quiet)

\* C13's case: the clock stands at the very instant the session expires: all three
\* fields are present and the session is not valid any more.
C13_Witness ==
  /\ authState.apiKey # ""
  /\ authState.mobileId # ""
  /\ authState.sessionExpiry = now
  /\ ~isSessionValid(Quiet)

\* The calls a and b ended alike in memory: the same return or error, session validity,
\* counters and headers.
SameOutcome(a, b) ==
  /\ a.ok = b.ok
  /\ a.err = b.err
  /\ isSessionValid(a.st) <=> isSessionValid(b.st)
  /\ a.st.auth.loginAttempts = b.st.auth.loginAttempts
  /\ a.st.auth.lastLoginAttempt = b.st.auth.lastLoginAttempt
  /\ a.st.hdr = b.st.hdr

\* initialize(), authenticate() or logout() on the disk that reads as dr and writes as dw
\* says, the sign-in endpoint following s.
OnDisk(method, s, dr, dw) ==
  LET st == Cur(AuthEnv(s, <<RejectRefused>>, dr, dw))
  IN CASE method = "initialize"   -> AuthManager_initialize(st)
       [] method = "authenticate" -> authenticate(st)
       [] OTHER                   -> AuthManager_logout(st)

\* C14 as stated: when reading or writing the state file fails, initialize(),
\* authenticate() and logout() complete with the same in-memory outcome (session
\* validity, counters, headers) as when the disk is available, and raise no error caused
\* by the disk.
C14_AsStated ==
  \A method \in {"initialize", "authenticate", "logout"}, s \in SignInScripts,
     dr \in BOOLEAN, dw \in BOOLEAN :
    SameOutcome(OnDisk(method, s, dr, dw), OnDisk(method, s, TRUE, TRUE))

\* C14 (amended): persistence failures are never raised. When WRITING the state file
\* fails, initialize(), authenticate() and logout() end with the same in-memory state,
\* headers and return or error as when the write succeeds; when READING it fails,
\* initialize() returns normally and ends AS IT DOES WITH A MISSING STATE FILE (a fresh
\* deviceUuid, the rest of the in-memory state untouched).
C14_PersistenceFailures ==
  \A method \in {"initialize", "authenticate", "logout"}, s \in SignInScripts,
     dr \in BOOLEAN :
    LET failing == OnDisk(method, s, dr, FALSE)
        working == OnDisk(method, s, dr, TRUE)
        missing == AuthManager_initialize(
                     [Cur(AuthEnv(s, <<RejectRefused>>, TRUE, FALSE))
                        EXCEPT !.file = MissingFile])
    IN /\ SameOutcome(failing, working)
       /\ failing.st.auth = working.st.auth
       /\ method = "initialize" => failing.ok /\ working.ok
       /\ (method = "initialize" /\ ~dr)
            => /\ SameOutcome(failing, missing)
               /\ failing.st.auth = missing.st.auth

\* C14's case: a login succeeded while the write to disk failed: the session is valid in
\* memory and in the headers although the state file still holds the session before it.
C14_Witness ==
  /\ isSessionValid(Quiet)
  /\ headers.apiKey = authState.apiKey
  /\ file.kind = "json"
  /\ Field(file.json, "apiKey") # ""
  /\ Field(file.json, "apiKey") # authState.apiKey

-----------------------------------------------------------------------------
(* Claims about the facade's refresh *)

\* The service whose house endpoint answers 304 Not Modified to every request.
Unmodified ==
  ClientEnv(<<SignedIn>>, <<Discovered>>, <<RejectStatus(NOT_MODIFIED)>>, <<DeviceAnswer>>)

\* The call r left the device collections and lastUpdate as they are now.
KeepsDevices(r) ==
  /\ r.st.cl.thermostats = client.thermostats
  /\ r.st.cl.automations = client.automations
  /\ r.st.cl.lastUpdate = client.lastUpdate

-----------------------------------------------------------------------------
(* The refresh step by step: update() as a task that readers interleave with *)

\* getThermostatIds() and getAutomationIds(); getThermostatById(id) and
\* getAutomationById(id) return an object exactly for the ids listed here.
View(cl) == [thermostats |-> cl.thermostats, automations |-> cl.automations]

\* One synchronous run of processHouseData's loop over result._links.child, from the
\* state st on: the collection children are processed in place until the loop comes to
\* a device link, whose fetch it awaits.  The result is the state at that await and the
\* children left, the awaited link first.
RECURSIVE processToAwait(_, _)
processToAwait(st, child) ==
  IF child = <<>> \/ isThermostatLink(Head(child)) \/ isAutomationLink(Head(child))
    THEN [st |-> st, child |-> child]
    ELSE processToAwait(processChild(st, Head(child)), Tail(child))

\* Where the task t stands after the run p of the loop: at the await of the next device
\* link, or, the children done, through the loops over the embedded devices and
\* automations and the assignment of lastUpdate, at its end.
refresh_suspended(p, t) ==
  IF p.child = <<>>
    THEN [st |-> [processDevices(p.st, t.result) EXCEPT !.cl.lastUpdate = p.st.now],
          task |-> NoTask]
    ELSE [st |-> p.st,
          task |-> [t EXCEPT !.pc = "fetching", !.env = p.st.env, !.child = p.child]]

\* update() from the response r of the device-tree fetch (a fresh tree) to the first
\* await of processHouseData: the collections are cleared, then the loop starts.
refresh_response(r, t) ==
  refresh_suspended(processToAwait(clearDeviceCache(r.st), r.val.data.result.child),
                    [t EXCEPT !.result = r.val.data.result])

\* update() up to the first await of processHouseData.
refresh_begin(st, forceUpdate) ==
  refresh_response(
    IF forceUpdate THEN HttpClient_get(ensureAuthenticated(st).st, HouseUrl(st.cl.houseId), "")
    ELSE getWithETag(ensureAuthenticated(st).st, HouseUrl(st.cl.houseId)),
    [NoTask EXCEPT !.before = View(st.cl),
                   !.after = View(TraneClient_update(st, forceUpdate).st.cl)])

\* processThermostat or processAutomation from the moment its fetch settles, and the
\* loop from there to its next await.
refresh_fetched(st, t) ==
  refresh_suspended(
    processToAwait(IF isThermostatLink(Head(t.child))
                     THEN processThermostat(st, Head(t.child))
                     ELSE processAutomation(st, Head(t.child)),
                   Tail(t.child)),
    t)

\* A step of a task: its run x.st becomes the state, x.task the task.
Step(x) ==
  /\ x.st.uuidCtr <= MaxUuid
  /\ Commit(x.st)
  /\ task' = x.task
  /\ UNCHANGED <<thermostat, reading, httpOptions>>

\* The fresh device trees the house endpoint may answer a refresh with: embedded devices
\* only, a device link before a collection, a collection before a device link.
RefreshAnswers ==
  {HouseAnswer,
   Resolve(OK, "", HouseBody(TRUE,
             Result(<<ThermostatLink, Collection(<<Payload(5, TRUE), Payload(6, FALSE)>>)>>,
                    <<>>, <<>>))),
   Resolve(OK, "e2", HouseBody(TRUE,
             Result(<<Collection(<<Payload(5, TRUE)>>), ThermostatLink>>,
                    <<>>, <<Payload(9, FALSE)>>)))}

RefreshEnvs ==
  {ClientEnv(<<SignedIn>>, <<Discovered>>, <<h>>, <<d>>) :
     h \in RefreshAnswers, d \in DeviceAnswers}

\* update() is called and runs to its first await inside processHouseData, or to its end
\* when the tree holds no device link.
RefreshBegin ==
  \E env \in RefreshEnvs, forceUpdate \in BOOLEAN :
    /\ task.pc = "idle"
    /\ Ready
    /\ Step(refresh_begin(Cur(env), forceUpdate))

\* The fetch of a device link settles and the refresh runs on to its next await or to its
\* end.
RefreshFetched ==
  /\ task.pc = "fetching"
  /\ Step(refresh_fetched(Cur(task.env), task))

\* The facade with its refresh as a task; the other calls are made while no refresh is in
\* flight.
InitializeIdle ==
  /\ task.pc = "idle"
  /\ ClientInitialize

LogoutIdle ==
  /\ task.pc = "idle"
  /\ ClientLogout

NextRefresh ==
  \/ InitializeIdle
  \/ LogoutIdle
  \/ RefreshBegin
  \/ RefreshFetched

SpecRefresh == Init /\ [][NextRefresh]_vars

\* C16: while update() processes a fresh device tree, a reader that calls
\* getThermostatById, getThermostatIds or getAutomationById at any point between two
\* steps of the refresh sees either the complete collections of before the refresh or
\* the complete collections of after it, never empty or partly filled ones.
C16_AtomicRefresh ==
  task.pc = "fetching" => View(client) \in {task.before, task.after}

-----------------------------------------------------------------------------
(* Device commands: the write, the timers, the polls and the delayed update *)

\* The command has settled: its promise resolved or rejected.
settled(st, t, outcome) ==
  [st |-> st, task |-> [t EXCEPT !.pc = "done", !.due = 0, !.outcome = outcome]]

\* delayedUpdate that runs its update() without a delay
delayedUpdate_immediate(st, t) ==
  [st |-> st, task |-> [t EXCEPT !.pc = "settling", !.due = st.now]]

\* TraneClient.delayedUpdate(API_CONSTANTS.UPDATE_DELAY_SECONDS * 1000): the timer of
\* the delayed update() is set.
delayedUpdate(st, t) ==
  [st |-> st,
   task |-> [t EXCEPT !.pc = "settling", !.due = st.now + UPDATE_DELAY_SECONDS * 1000]]

\* The callback of delayedUpdate's timer once this.update() has settled as r: resolve()
\* or reject(error).
delayedUpdate_fired(r, t) ==
  settled(r.st, [t EXCEPT !.refresh = [ok |-> r.ok, log |-> r.st.log]],
          IF r.ok THEN "resolved" ELSE "rejected")

\* A setter of a thermostat or a zone (setFanMode, setFanSpeed, setMode, setTemperatures,
\* setPreset, ...) once this.client.post(endpoint, payload) has settled as w.
command_written(w, t) ==
  IF w.ok THEN delayedUpdate(w.st, [t EXCEPT !.wroteAt = w.st.now])
  ELSE settled(w.st, t, "rejected")

\* setEnabled or activate of an automation once the put or post has settled as w.
automation_written(w, t) ==
  IF w.ok THEN settled(w.st, [t EXCEPT !.wroteAt = w.st.now], "resolved")
  ELSE settled(w.st, t, "rejected")

\* selectActiveSensors after its loop: the warning and the delayed update.
select_polled(st, t) ==
  delayedUpdate(st, [t EXCEPT !.warned = (t.pollCount >= t.maxPolls)])

\* selectActiveSensors at the head of its loop: while (pollCount < maxPolls) it awaits
\* this.delay(pollInterval).
select_loop(st, t) ==
  IF t.pollCount < t.maxPolls
    THEN [st |-> st, task |-> [t EXCEPT !.pc = "waiting", !.due = st.now + t.pollInterval]]
    ELSE select_polled(st, t)

\* The loop's body once loadCurrentSensorState has returned: the comparison of
\* this.activeSensorIds with the requested ids: break, or pollCount++.
select_compared(st, t) ==
  IF t.zone.active = t.requested THEN select_polled(st, t)
  ELSE select_loop(st, [t EXCEPT !.pollCount = @ + 1])

\* selectActiveSensors once the post to update_active_sensors has settled as w.
select_written(w, t) ==
  IF w.ok THEN select_loop(w.st, [t EXCEPT !.wroteAt = w.st.now])
  ELSE settled(w.st, t, "rejected")

\* TraneValidator.validateSensorSelection: every requested id is a sensor of the zone and
\* at least one is requested.
validateSensorSelection(activeSensorIds, availableSensorIds) ==
  activeSensorIds \subseteq availableSensorIds /\ activeSensorIds # {}

selectActiveSensors(st, t) ==
  IF validateSensorSelection(t.requested, t.zone.sensors)
    THEN select_written(TraneClient_post(st, DEVICE), t)
    ELSE settled(st, t, "rejected")

\* loadCurrentSensorState once the post to request_current_sensor_state has settled as
\* q: it awaits this.delay(1000), or, the post failed, logs the failure and returns.
load_requested(q, t) ==
  IF q.ok THEN [st |-> q.st, task |-> [t EXCEPT !.pc = "requested", !.due = q.st.now + 1000]]
  ELSE select_compared(q.st, t)

\* loadCurrentSensorState once this.thermostat.refresh() has settled as r (a failure is
\* logged and swallowed).
load_refreshed(r, t) == select_compared(r.st, t)

\* The device tree of the answer shows the requested sensors of the zone active.
Reports(answer, t) ==
  /\ answer.kind = "resolve"
  /\ \E i \in 1..Len(answer.data.result.devices) :
       \E z \in Zones(answer.data.result.devices[i]) :
         z.thermostat = t.zone.thermostat /\ z.active = t.requested

\* The sensors of a zone, and a thermostat payload with one zone, of which the sensors
\* in active have a weight above 0.
Sensors == {1, 2}
ZonePayload(id, active) ==
  [id |-> id, features |-> TRUE, zones |-> {[sensors |-> Sensors, active |-> active]}]

\* What the house endpoint may answer while commands run: the tree of one thermostat
\* whose zone has sensor 1 or sensor 2 active, or a failure.
ZoneAnswers ==
  {Resolve(OK, "e1", HouseBody(TRUE, Result(<<>>, <<ZonePayload(7, {1})>>, <<>>))),
   Resolve(OK, "", HouseBody(TRUE, Result(<<>>, <<ZonePayload(7, {2})>>, <<>>))),
   RejectStatus(NOT_MODIFIED), RejectStatus(INTERNAL_SERVER_ERROR)}

\* What a command endpoint may answer to a write.
WriteAnswers == {DeviceAnswer, RejectStatus(INTERNAL_SERVER_ERROR)}

CommandEnv(h, d) == ClientEnv(<<SignedIn>>, <<Discovered>>, <<h>>, <<d>>)

\* The task of the next command.
NewCommand(kind) == [NoTask EXCEPT !.n = task.n + 1, !.kind = kind]

\* A command may be issued: none is in flight and the client is ready.
Free ==
  /\ task.pc \in {"idle", "done"}
  /\ task.n < MaxCommands
  /\ Ready

\* client.initialize() before the commands.
Connect ==
  \E h \in ZoneAnswers :
    /\ task.pc = "idle"
    /\ Call(TraneClient_initialize(Cur(CommandEnv(h, DeviceAnswer))))

\* A setter of a thermostat of the collection, or of its zone, is called; valid says
\* whether its argument passes the validation.
Command ==
  \E d \in WriteAnswers, valid \in BOOLEAN :
    /\ Free
    /\ client.thermostats # {}
    /\ Step(IF valid
              THEN command_written(TraneClient_post(Cur(CommandEnv(HouseAnswer, d)), DEVICE),
                                   NewCommand("set"))
              ELSE settled(Cur(CommandEnv(HouseAnswer, d)), NewCommand("set"), "rejected"))

\* setEnabled or activate of an automation is called.
AutomationCommand ==
  \E d \in WriteAnswers :
    /\ Free
    /\ Step(automation_written(TraneClient_post(Cur(CommandEnv(HouseAnswer, d)), DEVICE),
                               NewCommand("automation")))

\* selectActiveSensors is called on a zone object of the collection.
SelectActiveSensors ==
  \E d \in WriteAnswers, zone \in client.zones, activeSensorIds \in SUBSET Sensors,
     maxPolls \in 0..MaxPolls, pollingDelay \in {1, 5} :
    /\ Free
    /\ Step(selectActiveSensors(
              Cur(CommandEnv(HouseAnswer, d)),
              [NewCommand("select") EXCEPT !.zone = zone, !.requested = activeSensorIds,
                                           !.maxPolls = maxPolls,
                                           !.pollInterval = pollingDelay * 1000]))

\* Time passes while a timer is set: to the millisecond before it is due, or to the
\* instant it is due.
Elapse ==
  /\ task.pc \in {"settling", "waiting", "requested"}
  /\ \E t \in {task.due - 1, task.due} : t > now /\ now' = t
  /\ UNCHANGED <<authState, headers, file, etagCache, uuidCtr, client, task, thermostat,
                 reading, httpOptions>>

\* The timer of the loop's delay fires: loadCurrentSensorState posts its request.
PollRequest ==
  \E d \in WriteAnswers :
    /\ task.pc = "waiting"
    /\ now >= task.due
    /\ Step(load_requested(TraneClient_post(Cur(CommandEnv(HouseAnswer, d)), DEVICE),
                           [task EXCEPT !.polls = @ + 1]))

\* The timer of loadCurrentSensorState's delay fires: this.thermostat.refresh(), which is
\* client.update({ forceUpdate: true }), and the loop's comparison.
PollRefresh ==
  \E h \in ZoneAnswers :
    /\ task.pc = "requested"
    /\ now >= task.due
    /\ Step(load_refreshed(
              TraneClient_update(Cur(CommandEnv(h, DeviceAnswer)), TRUE),
              [task EXCEPT !.reported = IF @ = 0 /\ Reports(h, task) THEN task.polls ELSE @]))

\* The timer of delayedUpdate fires: this.update().
SettleElapsed ==
  \E h \in ZoneAnswers :
    /\ task.pc = "settling"
    /\ now >= task.due
    /\ Step(delayedUpdate_fired(TraneClient_update(Cur(CommandEnv(h, DeviceAnswer)), FALSE),
                                [task EXCEPT !.refreshedAt = now]))

NextCommand ==
  \/ Connect
  \/ Command
  \/ AutomationCommand
  \/ SelectActiveSensors
  \/ Elapse
  \/ PollRequest
  \/ PollRefresh
  \/ SettleElapsed

SpecCommand == Init /\ [][NextCommand]_vars

\* The settle delay in milliseconds.
SettleDelay == UPDATE_DELAY_SECONDS * 1000

\* C17: for every device command the write request is issued first and the refresh (the
\* update() of delayedUpdate) starts only after the write has succeeded and the settle
\* delay of 7 s has elapsed since; the timer of the refresh is set only after the write
\* has succeeded; when the write fails (or the argument is refused before it), the
\* command rejects, no timer is set and no refresh and no poll is made.
C17_CommandOrdering ==
  /\ task.pc = "settling" => task.wroteAt # 0 /\ task.due >= task.wroteAt + SettleDelay
  /\ task.refreshedAt # 0
       => /\ task.wroteAt # 0
          /\ task.refreshedAt >= task.wroteAt + SettleDelay
          /\ task.refresh.log.sent[HOUSES] >= 1
  /\ (task.pc = "done" /\ task.wroteAt = 0)
       => /\ task.outcome = "rejected"
          /\ task.due = 0
          /\ task.refreshedAt = 0
          /\ task.polls = 0

\* C17's case: a setter has resolved: its write succeeded and its refresh started at the
\* instant the settle delay had elapsed.
C17_Witness ==
  /\ task.pc = "done"
  /\ task.kind = "set"
  /\ task.outcome = "resolved"
  /\ task.wroteAt # 0
  /\ task.refreshedAt = task.wroteAt + SettleDelay
  /\ client.lastUpdate = task.refreshedAt

\* The zone objects the device tree of the answer describes.
ZonesOf(answer) ==
  UNION {Zones(answer.data.result.devices[i]) :
           i \in 1..Len(answer.data.result.devices)}

\* C18: the refresh that follows a command's settle delay is a forced refresh: it fetches
\* the device tree without an If-None-Match precondition, and it always reprocesses the
\* response into the device collections (and sets lastUpdate).
C18_ForcedRefresh ==
  (task.pc = "done" /\ task.refreshedAt # 0)
    => /\ task.refresh.log.inm = {}
       /\ task.refresh.log.got[HOUSES].kind = "resolve"
            => /\ task.refresh.ok
               /\ client.lastUpdate = task.refreshedAt
               /\ client.zones = ZonesOf(task.refresh.log.got[HOUSES])

\* The loop of selectActiveSensors has ended, on a command whose write succeeded.
Polled ==
  /\ task.kind = "select"
  /\ task.wroteAt # 0
  /\ task.pc \in {"settling", "done"}

\* C19: in selectActiveSensors, if at poll k < maxPolls the refreshed state of the zone
\* reports an active-sensor set equal to the requested set, polling stops after poll k
\* (no further request_current_sensor_state call is made) and no warning is logged.
C19_EarlyStop ==
  (task.kind = "select" /\ task.reported # 0 /\ task.reported < task.maxPolls)
    => /\ Polled
       /\ task.polls = task.reported
       /\ ~task.warned

\* C20: selectActiveSensors with maxPolls = N performs at most N polls and then
\* terminates; when no poll observes the requested set the warning is logged after
\* exactly N polls and the command still resolves; when poll N is the first one that
\* observes the requested set, polling ends after poll N and no warning is logged.
C20_PollingBudget ==
  /\ task.kind = "select" => task.polls <= task.maxPolls
  /\ (Polled /\ task.reported = 0)
       => /\ task.polls = task.maxPolls
          /\ task.warned
          /\ task.pc = "done" => task.outcome = "resolved"
  /\ (Polled /\ task.reported = task.maxPolls /\ task.maxPolls # 0)
       => /\ task.polls = task.maxPolls
          /\ ~task.warned

-----------------------------------------------------------------------------
(* Claims about session discovery *)

\* config.houseId as the caller may construct the client with (0: none is configured)
ConfiguredHouses == {0, 1, 2, 3}

InitConfigured ==
  /\ authState = NewAuthState(1)
  /\ headers = NoHeaders
  /\ file = MissingFile
  /\ etagCache = [u \in Urls |-> NoEntry]
  /\ now = StartTime
  /\ uuidCtr = 1
  /\ \E c \in ConfiguredHouses : client = NewClient(c)
  /\ task = NoTask
  /\ httpOptions = DefaultOptions
  /\ thermostat = NoThermostat
  /\ reading = NoReading

\* The session manager of a client constructed with any config.houseId: it signs in,
\* discovers its house, and loses its session with time or when the service ends it.
NextDiscovery ==
  \/ Tick
  \/ Authenticate(Reliable)
  \/ HandleSessionExpired
  \/ GetSessionInfo(Reliable)

SpecDiscovery == InitConfigured /\ [][NextDiscovery]_vars

Range(seq) == {seq[i] : i \in 1..Len(seq)}

\* The ids of the homes a discovery document lists in its link collection: the children
\* of the location type that carry an id.
LinkShape(data) ==
  LET locations == SelectSeq(data.links,
                     LAMBDA l : l.type = "application/vnd.nexia.location+json" /\ l.id # 0)
  IN [i \in 1..Len(locations) |-> locations[i].id]

\* The discovered homes of a document: the link collection when it yields any, else the
\* legacy list.
HomesOf(data) == IF LinkShape(data) # <<>> THEN LinkShape(data) ELSE data.homes

\* C21: whenever getSessionInfo() gets a successful discovery document: with a house id
\* configured and a discovered home of that id, it returns that home; with a house id
\* configured that no discovered home has, it raises AuthenticationError listing the
\* discovered ids; with none configured it returns the first discovered home; with no
\* home discovered it raises AuthenticationError.  The discovered homes are those of the
\* link collection when it yields any and those of the legacy list otherwise.
C21_HouseSelection ==
  \A s \in Steady(SignInAnswers), d \in SessionAnswers :
    LET r == getSessionInfo(Here(s, <<d>>, TRUE))
        homes == HomesOf(d.data)
        c == client.configHouseId
    IN (r.st.log.sent[SESSION] >= 1 /\ d.kind = "resolve" /\ d.data.success) =>
         /\ (c # 0 /\ c \in Range(homes)) => (r.ok /\ r.val.v = c)
         /\ (c # 0 /\ c \notin Range(homes) /\ homes # <<>>) =>
               (~r.ok /\ r.err.cls = "AuthenticationError" /\ r.err.ids = homes)
         /\ (c = 0 /\ homes # <<>>) => (r.ok /\ r.val.v = Head(homes))
         /\ homes = <<>> => (~r.ok /\ r.err.cls = "AuthenticationError")

\* C21's case: a manager configured with house 2 holds a session it signed in for; on a
\* link collection of the homes 1 and 2 getSessionInfo() returns home 2, which is not the
\* first, and on a document whose links yield no home and whose legacy list holds 3 and
\* 1 it raises AuthenticationError listing 3 and 1.
C21_Witness ==
  /\ client.configHouseId = 2
  /\ isSessionValid(Quiet)
  /\ authState.lastLoginAttempt = now
  /\ LET r == getSessionInfo(Here(<<RejectRefused>>, <<Discovered>>, TRUE))
     IN r.ok /\ r.val.v = 2 /\ r.st.log.sent[SESSION] = 1 /\ r.st.log.sent[SIGN_IN] = 0
  /\ LET r == getSessionInfo(Here(<<RejectRefused>>,
                  <<Resolve(OK, "", SessionBody(TRUE, <<Location(0)>>, <<3, 1>>))>>, TRUE))
     IN ~r.ok /\ r.err.cls = "AuthenticationError" /\ r.err.ids = <<3, 1>>

-----------------------------------------------------------------------------
(* Claims about what the transport sends again *)

\* C22: a POST or a PUT that fails without a response (network error, timeout) or with a
\* status of 500 or above is sent once: the transport does not send it again.
C22_IdempotentRetry ==
  \A method \in {"POST", "PUT"}, url \in Urls, a \in HttpAnswers :
    LET r == Request(method, HttpHere(url, <<a>>), url)
    IN Retryable(a) => r.st.log.sent[url] = 1

-----------------------------------------------------------------------------
(* One hour of rejected sign-ins *)

\* What a service that rejects every sign-in answers: 401, a redirect, or a document
\* without success, api_key or mobile_id.
Rejections ==
  {RejectStatus(UNAUTHORIZED), Resolve(REDIRECT, "", NoData),
   Resolve(OK, "", SignInBody(FALSE, "k1", MobileId)),
   Resolve(OK, "", SignInBody(TRUE, "", MobileId)),
   Resolve(OK, "", SignInBody(TRUE, "k1", 0))}

\* A call whose sign-in requests are counted.
Counted(r) ==
  /\ Commit(r.st)
  /\ task' = [task EXCEPT !.signIns = @ + r.st.log.sent[SIGN_IN]]
  /\ UNCHANGED <<thermostat, reading, httpOptions>>

\* authenticate() against a service that rejects the sign-in
AuthenticateRejected ==
  \E s \in Scripts(Rejections), dw \in Unreliable :
    LET env == AuthEnv(s, <<RejectRefused>>, TRUE, dw)
    IN /\ Counted(authenticate(Cur(env)))

\* The clock moves on within the hour that began at the start.
WithinTheHour ==
  /\ now + HOUR_MS \div WindowSteps < StartTime + HOUR_MS
  /\ now' = now + HOUR_MS \div WindowSteps
  /\ UNCHANGED <<authState, headers, file, etagCache, uuidCtr, client, task, thermostat,
                 reading, httpOptions>>

\* The caller keeps calling authenticate() during the first hour, and no sign-in is
\* accepted.
NextLockout ==
  \/ AuthenticateRejected
  \/ WithinTheHour

SpecLockout == Init /\ [][NextLockout]_vars

\* C23: within one hour in which the service rejects every sign-in, at most
\* MAX_LOGIN_ATTEMPTS sign-in requests reach it, however often authenticate() is called.
C23_LockoutAvoidance == task.signIns <= MAX_LOGIN_ATTEMPTS

-----------------------------------------------------------------------------
(* TraneThermostat: the normalizer *)

\* An optional number is a set: {} is undefined, {n} the number n.
Value(opt) == CHOOSE v \in opt : TRUE

\* a ?? b
Coalesce(a, b) == IF a # {} THEN a ELSE b

\* A block of the features array: its name, the label/value pairs of its items, and of
\* the blocks 'thermostat' and 'room_iq_sensors' the fields the constructor reads.
Block(name) ==
  [name |-> name, items |-> <<>>, device_identifier |-> <<>>, temperature |-> {},
   sensors |-> <<>>]

\* features.find(f => f.name === name): <<>> when there is none
RECURSIVE find(_, _)
find(features, name) ==
  IF features = <<>> THEN <<>>
  ELSE IF Head(features).name = name THEN <<Head(features)>>
  ELSE find(Tail(features), name)

\* for (const item of items) if (item.label === label) value = item.value
RECURSIVE labelled(_, _, _)
labelled(items, label, value) ==
  IF items = <<>> THEN value
  ELSE labelled(Tail(items), label,
                IF Head(items).label = label THEN Head(items).value ELSE value)

\* A number that may have a fraction is a whole number of units of 1/Degree: quarters,
\* ninths, tenths and twentieths are exact.
Degree == 4 * 9 * 5

\* parseFloat of a whole number, or of the numeral of one
parseFloat(x) == x * Degree

\* data.features and data.settings of a payload that has none, or has an array there
NoFlags == [has_outdoor_temperature |-> FALSE, has_relative_humidity |-> FALSE]
NoSettings == [relative_humidity |-> {}, outdoor_temperature |-> {}]

\* transformed.settings.relative_humidity = parseFloat(rawData.indoor_humidity) / 100
relative_humidity_percent(rawData) ==
  IF rawData.indoor_humidity # {} THEN {parseFloat(Value(rawData.indoor_humidity))} ELSE {}

relative_humidity(rawData) ==
  IF rawData.indoor_humidity # {}
    THEN {parseFloat(Value(rawData.indoor_humidity)) \div 100}
    ELSE {}

\* transformed.settings.outdoor_temperature = parseFloat(rawData.outdoor_temperature)
outdoor_temperature(rawData) ==
  IF rawData.outdoor_temperature # {}
    THEN {parseFloat(Value(rawData.outdoor_temperature))}
    ELSE {}

\* The fields of ThermostatData the getters below read; rawFeatures is _rawFeatures.
transformApiData(rawData) ==
  IF rawData.settingsKind = "object" \/ rawData.featuresKind = "object"
    THEN [id |-> rawData.id, model |-> rawData.model, firmware |-> rawData.firmware,
          zones |-> rawData.zones, hasRawFeatures |-> FALSE, rawFeatures |-> <<>>,
          features |-> IF rawData.featuresKind = "object" THEN rawData.featuresObject
                       ELSE NoFlags,
          settings |-> IF rawData.settingsKind = "object" THEN rawData.settingsObject
                       ELSE NoSettings]
    ELSE LET features == IF rawData.featuresKind = "array" THEN rawData.features ELSE <<>>
             advancedInfo == find(features, "advanced_info")
             items == IF advancedInfo # <<>> THEN advancedInfo[1].items ELSE <<>>
         IN [id |-> rawData.id,
             model |-> labelled(items, "Model", "Unknown"),
             firmware |-> labelled(items, "Firmware Version", "Unknown"),
             zones |-> <<>>, hasRawFeatures |-> TRUE, rawFeatures |-> features,
             features |-> [has_outdoor_temperature |-> rawData.has_outdoor_temperature,
                           has_relative_humidity |-> rawData.has_indoor_humidity],
             settings |-> [relative_humidity |-> relative_humidity(rawData),
                           outdoor_temperature |-> outdoor_temperature(rawData)]]

\* The fields of ZoneData that TraneZone.id and TraneZone.currentTemperature read.
ZoneData(id, temperature) ==
  [id |-> id, zone_id |-> "", temperature |-> {}, settings |-> [temperature |-> temperature]]

\* String(this.data.zone_id || this.data.id)
TraneZone_id(zone) == IF zone.data.zone_id # "" THEN zone.data.zone_id ELSE zone.data.id

\* this.data.temperature ?? this.data.settings?.temperature ?? 0
currentTemperature(zone) ==
  Value(Coalesce(zone.data.temperature, Coalesce(zone.data.settings.temperature, {0})))

TraneZone(data) == [data |-> data]

\* this.zonesMap.set(zone.id, zone): the entry of the id keeps its place
RECURSIVE zonesMap_set(_, _)
zonesMap_set(zonesMap, zone) ==
  IF zonesMap = <<>> THEN <<zone>>
  ELSE IF TraneZone_id(Head(zonesMap)) = TraneZone_id(zone) THEN <<zone>> \o Tail(zonesMap)
  ELSE <<Head(zonesMap)>> \o zonesMap_set(Tail(zonesMap), zone)

\* for (const zoneData of this.data.zones) this.zonesMap.set(zone.id, zone)
RECURSIVE explicitZones(_, _)
explicitZones(zones, zonesMap) ==
  IF zones = <<>> THEN zonesMap
  ELSE explicitZones(Tail(zones), zonesMap_set(zonesMap, TraneZone(Head(zones))))

XxlZone == <<"X", "x", "l", "Z", "o", "n", "e", "-">>

IsDigit(c) == c \in {"0", "1", "2", "3", "4", "5", "6", "7", "8", "9"}

\* \d+ from position i on, as a string
RECURSIVE Digits(_, _)
Digits(chars, i) ==
  IF i <= Len(chars) /\ IsDigit(chars[i]) THEN chars[i] \o Digits(chars, i + 1) ELSE ""

\* The positions where /XxlZone-(\d+)/ matches
Matches(chars) ==
  {i \in 1..Len(chars) :
     /\ i + Len(XxlZone) <= Len(chars)
     /\ SubSeq(chars, i, i + Len(XxlZone) - 1) = XxlZone
     /\ IsDigit(chars[i + Len(XxlZone)])}

\* device_identifier.match(/XxlZone-(\d+)/): match[1] of the first match, "" for null
match(chars) ==
  IF Matches(chars) = {} THEN ""
  ELSE Digits(chars, (CHOOSE i \in Matches(chars) : \A j \in Matches(chars) : i <= j)
                       + Len(XxlZone))

\* zoneId that never looks at device_identifier
zoneId_own(data, thermostatFeature) == String(data.id)

\* The zone id of the thermostat block: the digits of its device_identifier, else the id
\* of the thermostat.
zoneId(data, thermostatFeature) ==
  IF thermostatFeature.device_identifier # <<>> /\ match(thermostatFeature.device_identifier) # ""
    THEN match(thermostatFeature.device_identifier)
    ELSE String(data.id)

\* currentTemp that never looks at the room sensors
currentTemp_own(thermostatFeature, sensorFeature) == thermostatFeature.temperature

\* currentTemp: the reading of the first room sensor if it is valid, else the block's own
currentTemp(thermostatFeature, sensorFeature) ==
  IF sensorFeature # <<>> /\ sensorFeature[1].sensors # <<>>
       /\ sensorFeature[1].sensors[1].temperature_valid
    THEN sensorFeature[1].sensors[1].temperature
    ELSE thermostatFeature.temperature

\* The zonesMap after initializeZones, in the order of its entries.
initializeZones(data) ==
  IF data.zones # <<>> THEN explicitZones(data.zones, <<>>)
  ELSE IF data.hasRawFeatures /\ find(data.rawFeatures, "thermostat") # <<>>
    THEN <<TraneZone(ZoneData(
             zoneId(data, find(data.rawFeatures, "thermostat")[1]),
             currentTemp(find(data.rawFeatures, "thermostat")[1],
                         find(data.rawFeatures, "room_iq_sensors"))))>>
  ELSE <<>>

\* new TraneThermostat(client, rawData)
TraneThermostat(rawData) ==
  [data |-> transformApiData(rawData),
   zonesMap |-> initializeZones(transformApiData(rawData))]

\* get model(), get firmware(), get zones()
Thermostat_model(t) == IF t.data.model # "" THEN t.data.model ELSE "Unknown"
Thermostat_firmware(t) == IF t.data.firmware # "" THEN t.data.firmware ELSE "Unknown"
Thermostat_zones(t) == t.zonesMap

\* get relativeHumidity(), get outdoorTemperature(): {} is null
relativeHumidity(t) ==
  IF ~t.data.features.has_relative_humidity THEN {} ELSE t.data.settings.relative_humidity

outdoorTemperature(t) ==
  IF ~t.data.features.has_outdoor_temperature THEN {}
  ELSE t.data.settings.outdoor_temperature

-----------------------------------------------------------------------------
(* Device payloads *)

\* The fields of a device payload the constructor reads.  settingsKind and featuresKind
\* say whether the field is a keyed object, an array or missing; features is the array.
RawDevice(id, settingsKind, featuresKind, features, zones) ==
  [id |-> id, settingsKind |-> settingsKind, featuresKind |-> featuresKind,
   features |-> features, model |-> "", firmware |-> "", zones |-> zones,
   featuresObject |-> NoFlags, settingsObject |-> NoSettings,
   has_indoor_humidity |-> FALSE, has_outdoor_temperature |-> FALSE,
   indoor_humidity |-> {}, outdoor_temperature |-> {}]

\* A device as the service knows it: its id, model and firmware ("": not told) and the
\* current temperature of each of its zones.
Temperatures == {0, 72}
LogicalDevices ==
  [id : {7}, model : {"", "XL824"}, firmware : {"", "5.9"},
   zones : UNION {[1..n -> Temperatures] : n \in 1..MaxZones}]

\* The zones array of a logical device; zone i has the id "8i".
ZonesArray(d) ==
  [i \in 1..Len(d.zones) |-> ZoneData("8" \o Digit(i), {d.zones[i]})]

\* The payload of the canonical shape that describes d.
Canonical(d) ==
  [RawDevice(d.id, "object", "object", <<>>, ZonesArray(d))
     EXCEPT !.model = d.model, !.firmware = d.firmware]

Item(label, value) == [label |-> label, value |-> value]

\* The payload of the array shape that describes d: model and firmware are items of the
\* block advanced_info, and the block thermostat is the live block of the first zone.
ArrayShaped(d) ==
  RawDevice(d.id, "array", "array",
    <<[Block("advanced_info") EXCEPT !.items =
         <<Item("Serial", "1")>>
         \o (IF d.firmware # "" THEN <<Item("Firmware Version", d.firmware)>> ELSE <<>>)
         \o (IF d.model # "" THEN <<Item("Model", d.model)>> ELSE <<>>)],
      [Block("thermostat") EXCEPT !.device_identifier = XxlZone \o <<"8", "1">>,
                                  !.temperature = {d.zones[1]}]>>,
    ZonesArray(d))

Identifiers ==
  {<<>>, XxlZone, XxlZone \o <<"8", "5">>, <<"Z", "8">>, <<"a">> \o XxlZone \o <<"8", "b">>,
   XxlZone \o <<"8", "5", "5", "8", "8", "5", "1", "9">>}

ThermostatBlocks ==
  {[Block("thermostat") EXCEPT !.device_identifier = i, !.temperature = t] :
     i \in Identifiers, t \in {{}, {70}}}

Sensor(temperature, valid) == [temperature |-> {temperature}, temperature_valid |-> valid]

SensorBlocks ==
  {[Block("room_iq_sensors") EXCEPT !.sensors = s] :
     s \in {<<>>} \cup {<<Sensor(72, v)>> : v \in BOOLEAN}
           \cup {<<Sensor(72, v), Sensor(74, w)>> : v \in BOOLEAN, w \in BOOLEAN}}

\* Payloads that are not made from a logical device: arrays of any blocks, with or without
\* a settings array, and payloads of the canonical shape without a zones array.
OtherDevices ==
  {RawDevice(7, k, "array", f, <<>>) :
     k \in {"array", "none"},
     f \in {<<>>} \cup {<<b>> : b \in ThermostatBlocks}
           \cup {<<s, b>> : s \in SensorBlocks, b \in ThermostatBlocks}}
  \cup {RawDevice(7, "object", k, <<>>, <<>>) : k \in {"object", "array", "none"}}
  \cup {RawDevice(7, "none", "none", <<>>, <<>>)}

\* Array-shaped payloads with and without the climate readings of the device: the
\* humidity in percent and the outdoor temperature in degrees.
ClimateDevices ==
  {[RawDevice(7, "array", "array", f, <<>>)
      EXCEPT !.has_indoor_humidity = hh, !.has_outdoor_temperature = ho,
             !.indoor_humidity = h, !.outdoor_temperature = o] :
     f \in {<<>>, <<[Block("thermostat") EXCEPT !.temperature = {70}]>>},
     hh \in BOOLEAN, ho \in BOOLEAN, h \in {{}, {0}, {45}}, o \in {{}, {0}, {-5}}}

InitNormalizer ==
  /\ authState = NewAuthState(1)
  /\ headers = NoHeaders
  /\ file = MissingFile
  /\ etagCache = [u \in Urls |-> NoEntry]
  /\ now = StartTime
  /\ uuidCtr = 1
  /\ client = NewClient(0)
  /\ task = NoTask
  /\ httpOptions = DefaultOptions
  /\ reading = NoReading
  /\ \/ \E d \in LogicalDevices :
          \/ thermostat = [NoThermostat EXCEPT !.pc = "new", !.raw = Canonical(d),
                                               !.twin = ArrayShaped(d)]
          \/ thermostat = [NoThermostat EXCEPT !.pc = "new", !.raw = ArrayShaped(d),
                                               !.twin = Canonical(d)]
     \/ \E p \in OtherDevices \cup ClimateDevices :
          thermostat = [NoThermostat EXCEPT !.pc = "new", !.raw = p, !.twin = p]

\* The constructor of TraneThermostat runs on the payload.
NewTraneThermostat ==
  /\ thermostat.pc = "new"
  /\ thermostat' = [thermostat EXCEPT !.pc = "constructed",
                                      !.data = TraneThermostat(thermostat.raw).data,
                                      !.zonesMap = TraneThermostat(thermostat.raw).zonesMap]
  /\ UNCHANGED <<authState, headers, file, etagCache, now, uuidCtr, client, task,
                 reading, httpOptions>>

NextNormalizer == NewTraneThermostat

SpecNormalizer == InitNormalizer /\ [][NextNormalizer]_vars

-----------------------------------------------------------------------------
(* Claims about the normalizer *)

\* C24: a TraneThermostat built from any device payload, canonical-shaped or
\* array-shaped, with or without an explicit zones array, has at least one zone.
C24_AtLeastOneZone ==
  thermostat.pc = "constructed" => Thermostat_zones(thermostat) # <<>>

\* What C25 compares of a thermostat: model, firmware, the number of its zones and the
\* current temperature of each.
Normalized(t) ==
  [model |-> Thermostat_model(t), firmware |-> Thermostat_firmware(t),
   zones |-> Len(Thermostat_zones(t)),
   currentTemperature |-> [i \in 1..Len(Thermostat_zones(t)) |->
                             currentTemperature(Thermostat_zones(t)[i])]]

\* C25: the thermostat built from a payload of one shape and the thermostat built from
\* the payload of the other shape that describes the same device have the same model,
\* firmware, number of zones and zone current temperatures.
C25_FormatEquivalence ==
  (thermostat.pc = "constructed" /\ thermostat.twin # thermostat.raw)
    => Normalized(thermostat) = Normalized(TraneThermostat(thermostat.twin))

-----------------------------------------------------------------------------
(* TemperatureValidator: rounding and conversion *)

CELSIUS == "C"
FAHRENHEIT == "F"

\* Math.round(x): floor(x + 0.5)
Math_round(x) == ((2 * x + Degree) \div (2 * Degree)) * Degree

\* roundTemperature that leaves out the division by 2
roundTemperature_doubling(t, unit) ==
  IF unit = CELSIUS THEN Math_round(t * 2) ELSE Math_round(t)

\* For a finite temperature (the others raise ValidationError).
roundTemperature(t, unit) ==
  IF unit = CELSIUS THEN Math_round(t * 2) \div 2 ELSE Math_round(t)

\* The divisions are exact on what roundTemperature returns: half degrees Celsius, whole
\* degrees Fahrenheit.
convertTemperature(t, fromUnit, toUnit) ==
  IF fromUnit = toUnit THEN t
  ELSE IF fromUnit = CELSIUS /\ toUnit = FAHRENHEIT THEN (t * 9) \div 5 + 32 * Degree
  ELSE ((t - 32 * Degree) * 5) \div 9

\* x -> roundTemperature(convertTemperature(roundTemperature(x, A), A, B), B)
Stabilize(x, A, B) ==
  roundTemperature(convertTemperature(roundTemperature(x, A), A, B), B)

\* The temperatures a caller may hand in: around 0 and around 70 degrees, in twentieths.
Inputs ==
  {b * Degree + k * (Degree \div 20) : b \in {0, 70}, k \in (0 - MaxSteps)..MaxSteps}

InitTemperature ==
  /\ authState = NewAuthState(1)
  /\ headers = NoHeaders
  /\ file = MissingFile
  /\ etagCache = [u \in Urls |-> NoEntry]
  /\ now = StartTime
  /\ uuidCtr = 1
  /\ client = NewClient(0)
  /\ task = NoTask
  /\ httpOptions = DefaultOptions
  /\ thermostat = NoThermostat
  /\ \E x \in Inputs, A \in {CELSIUS, FAHRENHEIT}, B \in {CELSIUS, FAHRENHEIT} :
       reading = [x |-> x, fromUnit |-> A, toUnit |-> B, n |-> 0, once |-> x, value |-> x]

\* The value is rounded in the one unit, converted and rounded in the other.
RoundConvertRound ==
  /\ reading.fromUnit # ""
  /\ reading.n < 2
  /\ reading' = [reading EXCEPT
       !.n = @ + 1,
       !.value = Stabilize(@, reading.fromUnit, reading.toUnit),
       !.once = IF reading.n = 0
                  THEN Stabilize(reading.value, reading.fromUnit, reading.toUnit) ELSE @]
  /\ UNCHANGED <<authState, headers, file, etagCache, now, uuidCtr, client, task,
                 thermostat, httpOptions>>

NextTemperature == RoundConvertRound

SpecTemperature == InitTemperature /\ [][NextTemperature]_vars

\* C26: with the two units the same, rounding, converting and rounding a temperature
\* twice gives what doing it once gives; roundTemperature is idempotent and returns whole
\* degrees Fahrenheit and half degrees Celsius.
C26_RoundingStabilizes ==
  /\ (reading.n = 2 /\ reading.fromUnit = reading.toUnit) => reading.value = reading.once
  /\ (reading.n >= 1 /\ reading.fromUnit = reading.toUnit) =>
       reading.value = roundTemperature(reading.x, reading.toUnit)
  /\ reading.fromUnit # "" =>
       /\ \A u \in {CELSIUS, FAHRENHEIT} :
            roundTemperature(roundTemperature(reading.x, u), u)
              = roundTemperature(reading.x, u)
       /\ roundTemperature(reading.x, FAHRENHEIT) % Degree = 0
       /\ roundTemperature(reading.x, CELSIUS) % (Degree \div 2) = 0

\* C26's case: 70.25 degrees Celsius, a quarter of a degree off the half degree, has been
\* rounded twice in Celsius and is 70.5 after the first time and after the second.
C26_Witness ==
  /\ reading.n = 2
  /\ reading.fromUnit = CELSIUS
  /\ reading.toUnit = CELSIUS
  /\ reading.x = 70 * Degree + Degree \div 4
  /\ reading.once = 70 * Degree + Degree \div 2
  /\ reading.value = reading.once

-----------------------------------------------------------------------------
(* The transport of a client constructed with any retry count *)

InitRetry ==
  /\ authState = NewAuthState(1)
  /\ headers = NoHeaders
  /\ file = MissingFile
  /\ etagCache = [u \in Urls |-> NoEntry]
  /\ now = StartTime
  /\ uuidCtr = 1
  /\ client = NewClient(0)
  /\ task = NoTask
  /\ thermostat = NoThermostat
  /\ reading = NoReading
  /\ \E r \in 0..MaxRetry : httpOptions = [retryAttempts |-> r]

\* What an endpoint answers to the successive attempts of one request: failures, then
\* possibly a response; as many as the longest run of attempts takes, and one more.
RetryAnswers ==
  {Resolve(OK, "e1", Doc("d1")), Resolve(OK, "e2", Doc("d2")),
   RejectStatus(INTERNAL_SERVER_ERROR), RejectRefused}

RetryScripts ==
  {s \in UNION {[1..n -> RetryAnswers] :
                  n \in 1..(HttpClient_retryAttempts([retryAttempts |-> 0]) + 2)} :
     \A i \in 1..(Len(s) - 1) : s[i].kind = "reject"}

\* A call of get, post, put or delete
HttpRequest ==
  \E method \in Methods, url \in Urls, s \in RetryScripts :
    LET env == HttpEnv(url, s)
    IN /\ Call(Request(method, Cur(env), url))

NextRetry == HttpRequest

SpecRetry == InitRetry /\ [][NextRetry]_vars

\* C27: a request of a client configured with the retry count r is transmitted at most
\* r + 1 times; it returns the first successful response, or raises the classified error
\* of the last attempt.
C27_BoundedRetry ==
  \A method \in Methods, url \in Urls, s \in RetryScripts :
    LET r == Request(method, Cur(HttpEnv(url, s)), url)
        last == r.st.log.got[url]
    IN /\ r.st.log.sent[url] <= httpOptions.retryAttempts + 1
       /\ r.ok => (last.kind = "resolve" /\ r.val.data = last.data)
       /\ ~r.ok => (last.kind = "reject" /\ r.err = handleError(last.err))

-----------------------------------------------------------------------------
(* Claims about the error a caller of the transport sees *)

\* The class, and for an HttpError the status, the answer of the last attempt calls for:
\* 401, another 4xx, a 5xx, a timeout, a refused or unresolvable connection.
Surfaces(error, answer) ==
  LET e == answer.err
  IN /\ e.status = UNAUTHORIZED => error.cls = "AuthenticationError"
     /\ (e.status >= 400 /\ e.status < 500 /\ e.status # UNAUTHORIZED)
          => (error.cls = "HttpError" /\ error.status = e.status)
     /\ e.status >= 500 => (error.cls = "HttpError" /\ error.status = e.status)
     /\ (e.code = "ECONNABORTED" \/ e.tmo) => error.cls = "TimeoutError"
     /\ e.code \in {"ECONNREFUSED", "ENOTFOUND"} => error.cls = "NetworkError"

\* C28: the error a caller of get, post, put or delete sees is an AuthenticationError for
\* a 401 response, an HttpError carrying the status for any other 4xx and for a 5xx, a
\* TimeoutError for a timeout and a NetworkError for a refused or unresolvable
\* connection; no error of another kind is surfaced.
C28_ErrorClassification ==
  \A method \in Methods, url \in Urls, a \in HttpAnswers :
    LET r == Request(method, HttpHere(url, <<a>>), url)
    IN ~r.ok
         => /\ Surfaces(r.err, a)
            /\ r.err.cls \in {"AuthenticationError", "HttpError", "TimeoutError",
                              "NetworkError"}

-----------------------------------------------------------------------------
(* Claims about whose cache entry a conditional request uses *)

\* The last answer of the call r to url was 304 Not Modified.
NotModified(r, url) ==
  LET last == r.st.log.got[url]
  IN last.kind = "reject" /\ last.err.status = NOT_MODIFIED

-----------------------------------------------------------------------------
(* Claims about the failures the facade does not recover from *)

\* What the transport is answered when a request fails for another reason than 401.
Failures ==
  {RejectStatus(NOT_FOUND), RejectStatus(INTERNAL_SERVER_ERROR), RejectTimeout,
   RejectRefused, RejectNoResponse}

\* The service whose endpoint at url answers every request with the failure a while the
\* sign-in and the discovery endpoint answer well.
Failing(url, a) ==
  ClientEnv(<<SignedIn>>, <<Discovered>>,
            IF url = HOUSES THEN <<a>> ELSE <<HouseAnswer>>,
            IF url = DEVICE THEN <<a>> ELSE <<DeviceAnswer>>)

\* The call r of the facade raised the error of the call t of the transport it made, after
\* no call of handleSessionExpired, no authentication and no request but those of t.
Propagated(r, t) ==
  /\ ~t.ok
  /\ ~isSessionExpiredError(t.err)
  /\ ~r.ok
  /\ r.err = t.err
  /\ r.st.log.expired = 0
  /\ r.st.log.auths = 0
  /\ r.st.log.sent = t.st.log.sent

\* C30: on an initialized client with a valid session, an update(), get(), post() or put()
\* whose request fails with an error that is not a session expiry (no response, a timeout,
\* a 5xx, a 4xx other than 401) re-authenticates nothing, issues no request again and
\* raises that same error to the caller.
C30_OnlyExpiryRecovered ==
  Ready =>
    \A a \in Failures :
      /\ \A method \in {"GET", "POST", "PUT"} :
           Propagated(TraneClient_request(method, Cur(Failing(DEVICE, a)), DEVICE),
                      Request(method, Cur(Failing(DEVICE, a)), DEVICE))
      /\ Propagated(TraneClient_update(Cur(Failing(HOUSES, a)), TRUE),
                    HttpClient_get(Cur(Failing(HOUSES, a)), HouseUrl(client.houseId), ""))
      /\ Propagated(TraneClient_update(Cur(Failing(HOUSES, a)), FALSE),
                    getWithETag(Cur(Failing(HOUSES, a)), HouseUrl(client.houseId)))

\* C30's case: the client is initialized on a valid session, and a put() answered 500 and
\* an update() that times out end with an error, without a sign-in request.
C30_Witness ==
  /\ Ready
  /\ LET r == TraneClient_put(Cur(Failing(DEVICE, RejectStatus(INTERNAL_SERVER_ERROR))),
                              DEVICE)
     IN ~r.ok /\ r.st.log.sent[DEVICE] >= 1 /\ r.st.log.sent[SIGN_IN] = 0
  /\ LET u == TraneClient_update(Cur(Failing(HOUSES, RejectTimeout)), FALSE)
     IN ~u.ok /\ u.st.log.sent[HOUSES] >= 1 /\ u.st.log.sent[SIGN_IN] = 0

-----------------------------------------------------------------------------
(* Claims about the zone made from the thermostat block *)

\* The payload is of the array shape, names no zones and has a thermostat block.
Synthesizes(rawData) ==
  /\ rawData.settingsKind # "object"
  /\ rawData.featuresKind = "array"
  /\ rawData.zones = <<>>
  /\ find(rawData.features, "thermostat") # <<>>

\* The thermostat block and the block of the room sensors of a payload.
ThermostatBlock(rawData) == find(rawData.features, "thermostat")[1]
SensorBlock(rawData) == find(rawData.features, "room_iq_sensors")

\* C31: the thermostat built from an array-shaped payload without a zones array and with
\* a thermostat block has exactly one zone; the id of the zone is the digit string that
\* follows "XxlZone-" in the block's device_identifier, and the id of the thermostat when
\* the device_identifier is absent or does not hold that pattern.
C31_ZoneSynthesis ==
  (thermostat.pc = "constructed" /\ Synthesizes(thermostat.raw))
    => /\ Len(Thermostat_zones(thermostat)) = 1
       /\ TraneZone_id(Thermostat_zones(thermostat)[1])
            = IF Matches(ThermostatBlock(thermostat.raw).device_identifier) # {}
                THEN match(ThermostatBlock(thermostat.raw).device_identifier)
                ELSE String(thermostat.raw.id)

\* C31's case: the device_identifier "XxlZone-85588519" has given the one zone "85588519".
C31_Witness ==
  /\ thermostat.pc = "constructed"
  /\ Synthesizes(thermostat.raw)
  /\ ThermostatBlock(thermostat.raw).device_identifier
       = XxlZone \o <<"8", "5", "5", "8", "8", "5", "1", "9">>
  /\ Len(Thermostat_zones(thermostat)) = 1
  /\ TraneZone_id(Thermostat_zones(thermostat)[1]) = "85588519"

\* The room sensors attached to the thermostat of a payload.
RoomSensors(rawData) ==
  IF SensorBlock(rawData) = <<>> THEN <<>> ELSE SensorBlock(rawData)[1].sensors

\* The reading of the thermostat block itself, as the zone reports it: 0 when it has none.
OwnReading(rawData) == Value(Coalesce(ThermostatBlock(rawData).temperature, {0}))

\* The current temperature of the one zone of the thermostat.
ZoneReading == currentTemperature(Thermostat_zones(thermostat)[1])

\* C32 as stated: the current temperature of the synthesized zone is the reading of an
\* attached room sensor whenever an attached sensor reports temperature_valid, and the
\* thermostat's own reading when there is no sensor or no sensor with a valid reading.
C32_AsStated ==
  (thermostat.pc = "constructed" /\ Synthesizes(thermostat.raw))
    => LET sensors == RoomSensors(thermostat.raw)
           valid == {i \in 1..Len(sensors) : sensors[i].temperature_valid}
       IN IF valid # {}
            THEN \E i \in valid : ZoneReading = Value(sensors[i].temperature)
            ELSE ZoneReading = OwnReading(thermostat.raw)

\* C32 (amended): the current temperature of the synthesized zone is the reading of THE
\* FIRST attached room sensor whenever THAT sensor reports temperature_valid, and the
\* thermostat's own reading otherwise: when there is no sensor or THE FIRST SENSOR HAS NO
\* VALID READING, WHATEVER THE OTHER SENSORS REPORT.
C32_SensorPreference ==
  (thermostat.pc = "constructed" /\ Synthesizes(thermostat.raw))
    => LET sensors == RoomSensors(thermostat.raw)
       IN IF sensors # <<>> /\ sensors[1].temperature_valid
            THEN ZoneReading = Value(sensors[1].temperature)
            ELSE ZoneReading = OwnReading(thermostat.raw)

\* C32's case: the thermostat reads 70, its first sensor reads a valid 72, and the zone
\* reports 72.
C32_Witness ==
  /\ thermostat.pc = "constructed"
  /\ Synthesizes(thermostat.raw)
  /\ ThermostatBlock(thermostat.raw).temperature = {70}
  /\ RoomSensors(thermostat.raw) # <<>>
  /\ RoomSensors(thermostat.raw)[1] = Sensor(72, TRUE)
  /\ ZoneReading = 72

-----------------------------------------------------------------------------
(* Claims about the climate readings of an array-shaped payload *)

\* C33 as stated: for an array-shaped payload, when indoor_humidity is present the
\* relative humidity of the thermostat is that percentage divided by 100; when
\* indoor_humidity or outdoor_temperature is absent the value is unset, never 0; a present
\* reading of 0 is reported as 0 and not as unset.
C33_AsStated ==
  (thermostat.pc = "constructed" /\ thermostat.data.hasRawFeatures)
    => LET raw == thermostat.raw
       IN /\ raw.indoor_humidity # {}
               => relativeHumidity(thermostat)
                    = {(Value(raw.indoor_humidity) * Degree) \div 100}
          /\ raw.indoor_humidity = {} => relativeHumidity(thermostat) = {}
          /\ raw.outdoor_temperature = {} => outdoorTemperature(thermostat) = {}
          /\ raw.outdoor_temperature = {0} => outdoorTemperature(thermostat) = {0}

\* C33 (amended): for an array-shaped payload WHOSE has_indoor_humidity IS SET, when
\* indoor_humidity is present the relative humidity is that percentage divided by 100, and
\* 0 for a reading of 0; WITH has_outdoor_temperature SET a present outdoor_temperature is
\* reported as it is, 0 as 0; when the reading is absent OR THE FLAG OF THE READING IS NOT
\* SET the value is unset, never 0.
C33_ClimateReadings ==
  (thermostat.pc = "constructed" /\ thermostat.data.hasRawFeatures)
    => LET raw == thermostat.raw
       IN /\ relativeHumidity(thermostat)
               = IF raw.has_indoor_humidity /\ raw.indoor_humidity # {}
                   THEN {(Value(raw.indoor_humidity) * Degree) \div 100}
                   ELSE {}
          /\ outdoorTemperature(thermostat)
               = IF raw.has_outdoor_temperature /\ raw.outdoor_temperature # {}
                   THEN {Value(raw.outdoor_temperature) * Degree}
                   ELSE {}

\* C33's case: a payload with the flags set, a humidity of 45 percent and an outdoor
\* temperature of 0 has given the relative humidity 0.45 and the outdoor temperature 0.
C33_Witness ==
  /\ thermostat.pc = "constructed"
  /\ thermostat.data.hasRawFeatures
  /\ thermostat.raw.has_indoor_humidity
  /\ thermostat.raw.has_outdoor_temperature
  /\ thermostat.raw.indoor_humidity = {45}
  /\ thermostat.raw.outdoor_temperature = {0}
  /\ relativeHumidity(thermostat) = {(45 * Degree) \div 100}
  /\ outdoorTemperature(thermostat) = {0}

-----------------------------------------------------------------------------
(* Claims about the attempt counter *)

\* C34: a call of authenticate() that passes the rate limiter and fails, whatever the
\* failure (a response without success, api_key or mobile_id, a transport error, a
\* redirect), leaves loginAttempts exactly 1 above the count the rate limiter let pass;
\* so that RateLimitError needs MAX_LOGIN_ATTEMPTS failed calls in the window.
C34_OneAttemptPerFailure ==
  \A s \in SignInScripts :
    LET c == checkRateLimit(Here(s, <<RejectRefused>>, TRUE))
        r == authenticate(Here(s, <<RejectRefused>>, TRUE))
    IN (c.ok /\ ~r.ok) => r.st.auth.loginAttempts = c.st.auth.loginAttempts + 1

-----------------------------------------------------------------------------
(* Claims about the house the facade works on *)

\* The service with every endpoint answering well.
Working == ClientEnv(<<SignedIn>>, <<Discovered>>, <<HouseAnswer>>, <<DeviceAnswer>>)

\* The call r of update() failed before any request for the device tree: 'House ID not
\* available'.
HouseIdNotAvailable(r) ==
  /\ ~r.ok
  /\ r.err.cls = "ApiError"
  /\ r.st.log.sent[HOUSES] = 0

\* C35: whenever the client is initialized and isAuthenticated() is true, the house id is
\* defined and update() does not fail with 'House ID not available'.
C35_HouseIdAvailable ==
  (client.isInitialized /\ isSessionValid(Quiet))
    => /\ client.houseId # 0
       /\ \A forceUpdate \in BOOLEAN :
            ~HouseIdNotAvailable(TraneClient_update(Cur(Working), forceUpdate))

-----------------------------------------------------------------------------
(* Claims about credentials the service has expired *)

\* The program state of a new process that finds the files of st.
Restarted(st) ==
  [st EXCEPT !.auth = NewAuthState(st.uuidCtr + 1), !.uuidCtr = st.uuidCtr + 1,
             !.hdr = NoHeaders, !.cache = [u \in Urls |-> NoEntry]]

\* The session of st is valid with the API key the session has now.
Revived(st) == isSessionValid(st) /\ st.auth.apiKey = authState.apiKey

\* C36: after handleSessionExpired() has invalidated the credentials of a valid session,
\* initialize() does not leave isSessionValid() true with the invalidated API key, neither
\* in the same process nor in a new process, as long as no authenticate() has succeeded.
C36_ExpiredStaysInvalid ==
  isSessionValid(Quiet)
    => /\ ~Revived(AuthManager_initialize(handleSessionExpired(Quiet)).st)
       /\ ~Revived(AuthManager_initialize(Restarted(handleSessionExpired(Quiet))).st)

-----------------------------------------------------------------------------
(* Claims about the credentials in the headers of the transport *)

\* The default headers of st carry neither X-ApiKey nor X-MobileId.
NoCredentials(st) == st.hdr.apiKey = "" /\ st.hdr.mobileId = ""

\* C37: whenever isSessionValid() is true, the default headers of the transport carry
\* X-ApiKey and X-MobileId equal to the apiKey and the mobileId of the session; after
\* logout(), reset() or handleSessionExpired() neither header is present.
C37_ValidImpliesInstalled ==
  /\ isSessionValid(Quiet)
       => (headers.apiKey = authState.apiKey /\ headers.mobileId = authState.mobileId)
  /\ \A dw \in Unreliable :
       /\ NoCredentials(AuthManager_logout(Here(<<RejectRefused>>, <<RejectRefused>>, dw)).st)
       /\ NoCredentials(reset(Here(<<RejectRefused>>, <<RejectRefused>>, dw)).st)
  /\ NoCredentials(handleSessionExpired(Quiet))

\* C37's case: a process that has loaded the state file of the one before holds a valid
\* session, the one of the file; the headers carry its credentials, and a logout would
\* remove them.
C37_Witness ==
  /\ authState.deviceUuid < uuidCtr
  /\ isSessionValid(Quiet)
  /\ file.kind = "json"
  /\ Field(file.json, "apiKey") = authState.apiKey
  /\ headers.apiKey = authState.apiKey
  /\ headers.mobileId = authState.mobileId
  /\ NoCredentials(AuthManager_logout(Quiet).st)

-----------------------------------------------------------------------------
(* Claims about what a refused sign-in leaves behind *)

\* The call r changed nothing: the session state, the headers and the state file are as
\* they are now, and nothing was sent.
NothingChanged(r) ==
  /\ r.st.auth = authState
  /\ r.st.hdr = headers
  /\ r.st.file = file
  /\ NoNetwork(r)

\* C38: a call of authenticate() that is refused with RateLimitError leaves loginAttempts,
\* lastLoginAttempt, the credentials and the headers of the transport as they were, so
\* that a refused call does not move the end of the lockout.
C38_RefusalChangesNothing ==
  \A s \in SignInScripts, dw \in Unreliable :
    LET r == authenticate(Here(s, <<RejectRefused>>, dw))
    IN (~r.ok /\ r.err.cls = "RateLimitError")
         => /\ NothingChanged(r)
            /\ authenticate([Here(s, <<RejectRefused>>, dw) EXCEPT !.auth = r.st.auth]).err
                 = r.err

\* C38's case: the counter is at the maximum, the last failed attempt was less than an
\* hour ago but not now, and a call is refused and leaves lastLoginAttempt where it was.
C38_Witness ==
  /\ authState.loginAttempts >= MAX_LOGIN_ATTEMPTS
  /\ Elapsed > 0
  /\ LET r == authenticate(Quiet)
     IN /\ ~r.ok
        /\ r.err.cls = "RateLimitError"
        /\ r.st.auth.lastLoginAttempt = authState.lastLoginAttempt
        /\ r.st.auth.lastLoginAttempt < now

-----------------------------------------------------------------------------
(* Claims about what a refresh that succeeds has loaded *)

\* The thermostat ids the children of a tree embed in their collections.
RECURSIVE Embedded(_)
Embedded(child) ==
  IF child = <<>> THEN {}
  ELSE (IF ~isThermostatLink(Head(child)) /\ ~isAutomationLink(Head(child))
           /\ Head(child).type = "application/vnd.nexia.collection+json"
          THEN Ids(Head(child).items, TRUE) ELSE {})
       \cup Embedded(Tail(child))

\* The tree links a thermostat that has to be fetched.
LinksThermostat(child) == \E i \in 1..Len(child) : isThermostatLink(child[i])

\* The call r of update() has every thermostat of the tree it fetched in the collection:
\* those of the devices entry, those embedded in a collection, and the one behind a device
\* link, which it has fetched.
Complete(r) ==
  LET result == r.st.log.got[HOUSES].data.result
      device == r.st.log.got[DEVICE]
  IN /\ Ids(result.devices, FALSE) \subseteq r.st.cl.thermostats
     /\ Embedded(result.child) \subseteq r.st.cl.thermostats
     /\ LinksThermostat(result.child)
          => (device.kind = "resolve" /\ DeviceId(device.data) \in r.st.cl.thermostats)

\* C39: when update() resolves after it fetched a fresh device tree, every thermostat the
\* tree refers to (device link, item of an embedded collection, devices entry) is in the
\* thermostat collection of the client.
C39_CompleteRefresh ==
  \A env \in ClientEnvs, forceUpdate \in BOOLEAN :
    LET r == TraneClient_update(Cur(env), forceUpdate)
    IN (r.ok /\ r.st.log.got[HOUSES].kind = "resolve") => Complete(r)

-----------------------------------------------------------------------------
(* The setters of a thermostat and of a zone with the checks of their arguments *)

\* String.prototype.trim on a string of characters
RECURSIVE trimStart(_)
trimStart(s) == IF s # <<>> /\ Head(s) = " " THEN trimStart(Tail(s)) ELSE s

RECURSIVE trimEnd(_)
trimEnd(s) ==
  IF s # <<>> /\ s[Len(s)] = " " THEN trimEnd(SubSeq(s, 1, Len(s) - 1)) ELSE s

trim(s) == trimEnd(trimStart(s))

\* GeneralValidator.validateRequiredString of a string: the trimmed value, or none when
\* it raises ValidationError.
validateRequiredString(value) == IF trim(value) = <<>> THEN {} ELSE {trim(value)}

\* availableFanModes: extractAvailableValues() returns null, so ['auto', 'on', 'circulate']
availableFanModes ==
  {<<"a", "u", "t", "o">>, <<"o", "n">>, <<"c", "i", "r", "c", "u", "l", "a", "t", "e">>}

\* FanSpeedValidator.validateFanSpeed of a finite number: FAN_SPEED_LIMITS.MIN <= speed
\* <= FAN_SPEED_LIMITS.MAX
validateFanSpeed(speed) == speed >= 0 * Degree /\ speed <= 1 * Degree

\* FanSpeedValidator.roundFanSpeed of a speed that passed validateFanSpeed
roundFanSpeed(speed) == Math_round(speed * 10) \div 10

\* TemperatureValidator.getTemperatureLimits
getTemperatureLimits(unit) ==
  IF unit = CELSIUS THEN [min |-> 7 * Degree, max |-> 32 * Degree]
  ELSE [min |-> 45 * Degree, max |-> 90 * Degree]

\* TemperatureValidator.validateTemperature of a finite number: "" when it returns, the
\* error it raises otherwise.
validateTemperature(temperature, unit) ==
  IF temperature < getTemperatureLimits(unit).min
       \/ temperature > getTemperatureLimits(unit).max
    THEN "TemperatureValidationError"
    ELSE ""

\* TemperatureValidator.validateSetpoints
validateSetpoints(heatTemp, coolTemp, deadband, unit) ==
  IF validateTemperature(heatTemp, unit) # "" THEN validateTemperature(heatTemp, unit)
  ELSE IF validateTemperature(coolTemp, unit) # "" THEN validateTemperature(coolTemp, unit)
  ELSE IF coolTemp - heatTemp < deadband THEN "DeadbandValidationError"
  ELSE ""

\* NexiaValidator.validateTemperatureConfig; an option that is undefined is the empty set.
validateTemperatureConfig(config) ==
  IF config.setTemp # {} THEN validateTemperature(Value(config.setTemp), config.unit)
  ELSE IF config.heatTemp # {} /\ config.coolTemp # {}
    THEN validateSetpoints(Value(config.heatTemp), Value(config.coolTemp),
                           config.deadband, config.unit)
  ELSE IF config.heatTemp # {}
    THEN validateTemperature(Value(config.heatTemp), config.unit)
  ELSE IF config.coolTemp # {}
    THEN validateTemperature(Value(config.coolTemp), config.unit)
  ELSE "ValidationError"

\* The setter throws error before it reaches its post.
refused(st, t, error) == settled(st, [t EXCEPT !.refused = error], "rejected")

\* A setter once this.client.post(endpoint, payload) has settled as w.
setter_written(w, t) ==
  command_written(w, [t EXCEPT !.written = @ + w.st.log.sent[DEVICE]])

\* TraneThermostat.setFanMode
setFanMode(st, t, mode) ==
  IF validateRequiredString(mode) = {} THEN refused(st, t, "ValidationError")
  ELSE IF Value(validateRequiredString(mode)) \notin availableFanModes
    THEN refused(st, t, "ValidationError")
  ELSE setter_written(TraneClient_post(st, DEVICE), t)

\* TraneThermostat.setFanSpeed
setFanSpeed(st, t, speed) ==
  IF ~t.device.has_variable_fan_speed THEN refused(st, t, "FeatureNotSupportedError")
  ELSE IF ~validateFanSpeed(speed) THEN refused(st, t, "ValidationError")
  ELSE IF ~validateFanSpeed(roundFanSpeed(speed)) THEN refused(st, t, "ValidationError")
  ELSE setter_written(TraneClient_post(st, DEVICE), t)

\* The body of setFanOptions after validateFanOptions, from the setter it has to call
\* next: rest holds the validated options that are defined, in the order mode, speed.
setFanOptions_next(st, t) ==
  IF t.rest = <<>> THEN settled(st, t, "resolved")
  ELSE IF Head(t.rest).option = "mode"
    THEN setFanMode(st, [t EXCEPT !.rest = Tail(@)], Head(t.rest).value)
  ELSE setFanSpeed(st, [t EXCEPT !.rest = Tail(@)], Head(t.rest).value)

\* TraneThermostat.setFanOptions with validateFanOptions
setFanOptions(st, t, options) ==
  IF options.mode # {} /\ validateRequiredString(Value(options.mode)) = {}
    THEN refused(st, t, "ValidationError")
  ELSE IF options.speed # {} /\ ~validateFanSpeed(Value(options.speed))
    THEN refused(st, t, "ValidationError")
  ELSE setFanOptions_next(
         st,
         [t EXCEPT !.rest =
            (IF options.mode = {} THEN <<>>
             ELSE <<[option |-> "mode",
                     value |-> Value(validateRequiredString(Value(options.mode)))]>>)
            \o (IF options.speed = {} THEN <<>>
                ELSE <<[option |-> "speed",
                        value |-> roundFanSpeed(Value(options.speed))]>>)])

\* TraneZone.setTemperatures; the payload holds the rounded setpoints.
setTemperatures(st, t, options) ==
  IF validateTemperatureConfig([heatTemp |-> options.heatingSetpoint,
                                coolTemp |-> options.coolingSetpoint,
                                setTemp |-> options.setTemp,
                                deadband |-> t.device.deadband,
                                unit |-> t.device.temperature_unit]) # ""
    THEN refused(st, t,
                 validateTemperatureConfig([heatTemp |-> options.heatingSetpoint,
                                            coolTemp |-> options.coolingSetpoint,
                                            setTemp |-> options.setTemp,
                                            deadband |-> t.device.deadband,
                                            unit |-> t.device.temperature_unit]))
    ELSE setter_written(TraneClient_post(st, DEVICE), t)

\* The callback of a setter's delayedUpdate once this.update() has settled as r: the
\* setter returns; setFanOptions goes on with the setter it has to call next.
setter_refreshed(r, t) ==
  IF r.ok /\ t.rest # <<>>
    THEN [st |-> r.st,
          task |-> [t EXCEPT !.pc = "returned", !.due = 0,
                             !.refresh = [ok |-> r.ok, log |-> r.st.log]]]
    ELSE delayedUpdate_fired(r, t)

\* What a thermostat object holds of its device: features.has_variable_fan_speed,
\* settings.deadband || 3 and the temperature unit.
DeviceData ==
  {[has_variable_fan_speed |-> f, deadband |-> 3 * Degree, temperature_unit |-> u] :
     f \in BOOLEAN, u \in {CELSIUS, FAHRENHEIT}}

\* The fan modes a caller may ask for: an available one, one with blanks around it, an
\* unknown one and a blank one.
FanModes == {<<"a", "u", "t", "o">>, <<" ", "o", "n", " ">>, <<"l", "o", "w">>, <<" ">>}

\* The fan speeds a caller may ask for: -0.1, 0.25, 1 and 1.1.
FanSpeeds == {0 - Degree \div 10, Degree \div 4, Degree, Degree + Degree \div 10}

\* The setpoints a caller may ask for, in degrees of either unit: below the limits, within
\* them and above them.
HeatingSetpoints == {{}, {6 * Degree}, {20 * Degree}, {68 * Degree}}
CoolingSetpoints == {{}, {22 * Degree}, {70 * Degree}, {72 * Degree}, {91 * Degree}}
SetTemps == {{}, {21 * Degree}, {100 * Degree}}

\* The task of the next setter, called on an object that holds device.
NewSetter(kind, device) == [NewCommand(kind) EXCEPT !.device = device]

SetFanMode ==
  \E d \in WriteAnswers, device \in DeviceData, mode \in FanModes :
    /\ Free
    /\ client.thermostats # {}
    /\ Step(setFanMode(Cur(CommandEnv(HouseAnswer, d)), NewSetter("setFanMode", device),
                       mode))

SetFanSpeed ==
  \E d \in WriteAnswers, device \in DeviceData, speed \in FanSpeeds :
    /\ Free
    /\ client.thermostats # {}
    /\ Step(setFanSpeed(Cur(CommandEnv(HouseAnswer, d)), NewSetter("setFanSpeed", device),
                        speed))

SetFanOptions ==
  \E d \in WriteAnswers, device \in DeviceData,
     mode \in {{}} \cup {{m} : m \in FanModes},
     speed \in {{}} \cup {{s} : s \in FanSpeeds} :
    /\ Free
    /\ client.thermostats # {}
    /\ Step(setFanOptions(Cur(CommandEnv(HouseAnswer, d)),
                          NewSetter("setFanOptions", device),
                          [mode |-> mode, speed |-> speed]))

SetTemperatures ==
  \E d \in WriteAnswers, device \in DeviceData, heatingSetpoint \in HeatingSetpoints,
     coolingSetpoint \in CoolingSetpoints, setTemp \in SetTemps :
    /\ Free
    /\ client.zones # {}
    /\ Step(setTemperatures(Cur(CommandEnv(HouseAnswer, d)),
                            NewSetter("setTemperatures", device),
                            [heatingSetpoint |-> heatingSetpoint,
                             coolingSetpoint |-> coolingSetpoint, setTemp |-> setTemp]))

\* The timer of a setter's delayedUpdate fires: this.update().
SetterRefresh ==
  \E h \in ZoneAnswers :
    /\ task.pc = "settling"
    /\ now >= task.due
    /\ Step(setter_refreshed(TraneClient_update(Cur(CommandEnv(h, DeviceAnswer)), FALSE),
                             [task EXCEPT !.refreshedAt = now]))

\* The setter that setFanOptions awaited has returned: setFanOptions calls the next one.
SetterReturned ==
  \E d \in WriteAnswers :
    /\ task.pc = "returned"
    /\ Step(setFanOptions_next(Cur(CommandEnv(HouseAnswer, d)), task))

NextSetter ==
  \/ Connect
  \/ SetFanMode
  \/ SetFanSpeed
  \/ SetFanOptions
  \/ SetTemperatures
  \/ SelectActiveSensors
  \/ Elapse
  \/ PollRequest
  \/ PollRefresh
  \/ SetterRefresh
  \/ SetterReturned

SpecSetter == Init /\ [][NextSetter]_vars

-----------------------------------------------------------------------------
(* Claims about refused commands *)

\* The command has ended with the error of a check of its arguments or of a feature.
RefusedByCheck ==
  /\ task.pc = "done"
  /\ \/ task.refused # ""
     \/ task.kind = "select" /\ ~validateSensorSelection(task.requested, task.zone.sensors)

\* C40: when the validation of a command's arguments or its feature check fails (invalid
\* fan mode, unsupported feature, setpoints violating the limits or the deadband, unknown
\* sensor id), the command raises the error without having sent any write request and
\* without having scheduled a refresh.
C40_RefusedWithoutEffect ==
  RefusedByCheck
    => /\ task.outcome = "rejected"
       /\ task.written = 0
       /\ task.wroteAt = 0
       /\ task.refreshedAt = 0
       /\ task.polls = 0

====
